---- MODULE Spec2Model ----
(***************************************************************************)
(* Model of saltext_vault/utils/vault/factory.py: the client factory       *)
(* (get_authd_client and the builders below it) and the trusted-peer       *)
(* request (_query_master.check_result).                                   *)
(*                                                                         *)
(* Optional values are sequences of length 0 (None) or 1.  A lease (token  *)
(* or secret ID) carries its remaining lifetime `left` in seconds; -1      *)
(* stands for every negative remainder (expired).  dur = 0 is a lease that *)
(* does not expire.                                                        *)
(***************************************************************************)
EXTENDS Integers, Sequences, FiniteSets, TLC

VARIABLES
    runtype,    \* hlp._get_salt_run_type(opts)
    opts,       \* opts["vault"]: the local configuration
    force_arg,  \* the force_local argument this calling context passes
    context,    \* context[cbank][CLIENT_CKEY]: (client, config) per bank
    tokens,     \* token cache (session scope) per bank
    secrets,    \* secret-ID cache (connection scope) per bank
    cfgcache,   \* connection-configuration cache (remote bank only)
    last,       \* observation of the last get_authd_client call
    qm,         \* observation of the last _query_master.check_result call
    pc,         \* observation of the last parse_config call
    procs,      \* concurrent get_authd_client calls: position and locals
    controller  \* the server the controller currently reports

vars == <<runtype, opts, force_arg, context, tokens, secrets, cfgcache, last, qm, pc,
          procs, controller>>

----------------------------------------------------------------------------
(* Bounds of the model *)

\* seconds that pass in one Tick
TickLen == 15
\* longest lifetime the backend issues
LongTtl == 20
\* shortest lifetime the backend issues
ShortTtl == 5
\* largest use limit the backend issues
MaxUses == 1

----------------------------------------------------------------------------
(* Program constants *)

\* default_config["auth"]["token_lifecycle"]["minimum_ttl"]
DefaultMinimumTtl == 10
\* token_cache.get(10), token.is_valid(10)
CachedTokenMinTtl == 10

None == <<>>
Some(x) == <<x>>
Val(o) == o[1]

Banks == {"local", "remote"}

\* hlp.SALT_RUNTYPE_*: the peer-run and impersonating types both delegate
RunTypes == {"MASTER", "MINION_LOCAL", "MINION_REMOTE"}

NoExc == "none"
\* a faulty except clause: a refused request is not caught
RecoverableWithoutDenied == {"VaultAuthExpired", "VaultConfigExpired"}

\* line 58: what the first build attempt may raise and have caught
Recoverable == {"VaultAuthExpired", "VaultConfigExpired", "VaultPermissionDeniedError"}

----------------------------------------------------------------------------
(* Leases: vleases.VaultToken / vleases.VaultSecretId *)

Lease(id, ttl, uses, renewable) ==
    [id |-> id, dur |-> ttl, left |-> ttl, num_uses |-> uses,
     use_count |-> 0, renewable |-> renewable]

IsValidFor(l, valid_for) == l.dur = 0 \/ l.left >= valid_for

HasUsesLeft(l) == l.num_uses = 0 \/ l.num_uses - (l.use_count + 1) >= 0

LeaseValid(l, valid_for) == IsValidFor(l, valid_for) /\ HasUsesLeft(l)

Used(l) == [l EXCEPT !.use_count = IF l.num_uses = 0 THEN 0 ELSE @ + 1]

Aged(l) ==
    IF l.dur = 0 THEN l
    ELSE [l EXCEPT !.left = IF @ - TickLen < 0 THEN -1 ELSE @ - TickLen]

\* the secret of a VaultAppRole: none required, invalid, local, or a lease
NoSecret == [kind |-> "none", lease |-> None]
InvalidVaultSecretId == [kind |-> "invalid", lease |-> None]
LocalVaultSecretId == [kind |-> "local", lease |-> None]
IssuedSecretId(l) == [kind |-> "lease", lease |-> Some(l)]

SecretValid(s, valid_for) ==
    CASE s.kind = "none" -> TRUE
      [] s.kind = "local" -> TRUE
      [] s.kind = "invalid" -> FALSE
      [] OTHER -> LeaseValid(Val(s.lease), valid_for)

\* auth.is_valid(valid_for): VaultTokenAuth / VaultAppRoleAuth
AuthValid(auth, valid_for) ==
    \/ auth.token # None /\ LeaseValid(Val(auth.token), valid_for)
    \/ auth.method = "approle" /\ SecretValid(auth.secret, valid_for)

\* VaultAuthCache.get(valid_for): the entry when valid, else None; an invalid
\* entry is flushed
CacheGet(slot, valid_for) ==
    IF slot # None /\ LeaseValid(Val(slot), valid_for)
    THEN [val |-> slot, slot |-> slot]
    ELSE [val |-> None, slot |-> None]

----------------------------------------------------------------------------
(* _query_master.check_result *)

\* paths a controller response may list in wrap_info_nested
Paths == {"auth:token", "auth:role_id"}

Urls == {"https://a", "https://b"}

\* a faulty comparison: the reported server is compared as it was sent
ReportedServerAsSent(server, local) == server

\* parse_config(result["server"], validate=False, opts=opts)["server"]:
\* a locally configured verify replaces the reported one
ReportedServer(server, local) ==
    [server EXCEPT !.verify = IF local.verify # "NOT_SET" THEN local.verify ELSE @]

Range(s) == {s[i] : i \in 1..Len(s)}

\* the keys of the unwrap loop that carry wrap_info, in loop order
WrappedKeys(result) ==
    LET keys == <<"">> \o result.wrap_info_nested
        carries(k) == IF k = "" THEN result.wrap_info ELSE k \in result.wrapped
    IN  SelectSeq(keys, carries)

\* a faulty unwrap loop: only the top-level wrap_info is unwrapped
UnwrapTopLevelOnly(keys, client, expected, vault) ==
    IF keys = <<>> \/ keys[1] # "" THEN <<>>
    ELSE <<[key |-> "", via |-> client.origin, server |-> client.server,
            expected_creation_path |-> expected]>>

\* one unwrap_client.unwrap call per wrapped key; the first call that the
\* backend refuses raises and ends the loop
UnwrapCalls(keys, client, expected, vault) ==
    LET call(k) == [key |-> k, via |-> client.origin, server |-> client.server,
                    expected_creation_path |-> expected]
    IN  IF vault = "ok" \/ keys = <<>>
        THEN [i \in 1..Len(keys) |-> call(keys[i])]
        ELSE <<call(keys[1])>>

\* a faulty error branch: expire_cache is ignored
ErrorKindGeneric(result) == "CommandExecutionError"

\* lines 431-434: what a response with an error key raises
ErrorKind(result) ==
    IF result.expire_cache THEN "VaultConfigExpired" ELSE "CommandExecutionError"

\* a faulty empty-result branch: a generic error
EmptyKindGeneric == "CommandExecutionError"

\* lines 410-419: what an empty result raises
EmptyKind == "VaultConfigExpired"

\* a faulty mismatch branch: the caller's client is kept
KeptClientAlways(unwrap_client, mismatch) == unwrap_client

\* lines 454-461: on a mismatch the caller's client is discarded
KeptClient(unwrap_client, mismatch) ==
    IF mismatch THEN None ELSE unwrap_client

\* a faulty expiry test: expire_cache is ignored when there is no error
ConfigExpiredOnMismatch(result, mismatch) == mismatch

\* lines 436-441 and 454-459: config_expired
ConfigExpired(result, mismatch) == result.expire_cache \/ mismatch

CheckResult(result, unwrap_client, local, vault) ==
    LET out(exc, msg, client, calls, mismatch) ==
            [exc |-> exc, msg |-> msg, client |-> client, unwraps |-> calls,
             mismatch |-> mismatch]
        reported == IF result.server # None
                    THEN Some(ReportedServer(Val(result.server), local))
                    ELSE None
        expected_server == IF unwrap_client # None
                           THEN Some(Val(unwrap_client).server) ELSE None
        mismatch == expected_server # None /\ reported # expected_server
        config_expired == ConfigExpired(result, mismatch)
        kept == KeptClient(unwrap_client, mismatch)
        needs_unwrap == result.wrap_info \/ result.wrap_info_nested # <<>>
        client == IF ~needs_unwrap \/ kept # None THEN kept
                  ELSE Some([origin |-> "derived", server |-> Val(reported)])
        keys == WrappedKeys(result)
        calls == IF needs_unwrap
                 THEN UnwrapCalls(keys, Val(client), kept # None, vault)
                 ELSE <<>>
    IN  IF result.kind = "empty"
        THEN out(EmptyKind, "Peer runner return was empty", None, <<>>, FALSE)
        ELSE IF result.kind = "nondict"
        THEN out("CommandExecutionError", "", None, <<>>, FALSE)
        ELSE IF result.error
        THEN out(ErrorKind(result), "", None, <<>>, FALSE)
        ELSE IF needs_unwrap /\ kept = None /\ reported = None
        THEN out("KeyError", "", None, <<>>, mismatch)
        ELSE IF needs_unwrap /\ keys # <<>> /\ vault # "ok"
        THEN out("VaultPermissionDeniedError", "", client, calls, mismatch)
        ELSE IF config_expired
        THEN out("VaultConfigExpired", "", client, calls, mismatch)
        ELSE out(NoExc, "", client, calls, mismatch)

----------------------------------------------------------------------------
(* The environment of one call: what the controller and the backend answer *)

MasterModes ==
    {"ok", "empty", "legacy", "upgraded", "error", "expire", "error_expire"}
VaultModes == {"ok", "denied"}

\* the answer of the peer runner to vault.<func>
MasterResponse(func, env, method) ==
    LET nested == IF (func = "get_config" \/ env.mode = "upgraded") /\ env.wrap
                  THEN (IF method = "approle" THEN <<"auth:role_id">>
                        ELSE <<"auth:token">>)
                  ELSE <<>>
        dict(err, expire, legacy) ==
            [kind |-> "dict", error |-> err, expire_cache |-> expire,
             server |-> IF err \/ legacy THEN None
                        ELSE Some([url |-> env.url, verify |-> "None"]),
             wrap_info |-> ~err /\ ~legacy /\ env.wrap
                           /\ func \in {"generate_new_token", "generate_secret_id"},
             wrap_info_nested |-> IF err \/ legacy THEN <<>> ELSE nested,
             wrapped |-> IF err \/ legacy THEN {} ELSE Range(nested)]
        empty == [dict(FALSE, FALSE, TRUE) EXCEPT !.kind = "empty"]
    IN  IF env.mode = "empty" THEN empty
        ELSE IF env.mode = "legacy"
        THEN (IF func = "generate_token" THEN dict(FALSE, FALSE, TRUE) ELSE empty)
        ELSE IF env.mode = "upgraded"
        THEN (IF func = "generate_token" THEN dict(FALSE, FALSE, FALSE) ELSE empty)
        ELSE IF func = "generate_token" THEN empty
        ELSE IF env.mode = "error" THEN dict(TRUE, FALSE, FALSE)
        ELSE IF env.mode = "error_expire" THEN dict(TRUE, TRUE, FALSE)
        ELSE IF env.mode = "expire" THEN dict(FALSE, TRUE, FALSE)
        ELSE dict(FALSE, FALSE, FALSE)

\* a lease as the backend issues it during this call
FreshLease(id, env) == Lease(id, env.ttl, env.uses, env.renewable)

\* secret IDs are issued with the long lifetime
FreshSecretId(env) == Lease("secret", LongTtl, env.uses, FALSE)

----------------------------------------------------------------------------
(* The world a call works on: the context, the caches and the call log *)

Event(op, arg, n) == [op |-> op, arg |-> arg, n |-> n]

Log(w, e) == [w EXCEPT !.ev = Append(@, e)]

\* a faulty run-type test: force_local is ignored
IsLocalByRunType(force_local) == runtype \in {"MASTER", "MINION_LOCAL"}

\* _get_salt_run_type(opts) in [MASTER, MINION_LOCAL] or force_local
IsLocal(force_local) == runtype \in {"MASTER", "MINION_LOCAL"} \/ force_local

\* vcache._get_cache_bank(opts, force_local=force_local)
CacheBank(force_local) == IF IsLocal(force_local) THEN "local" ELSE "remote"

\* the call log of one request: the request, then its unwrap calls, then
\* what check_result raised, if anything
Queried(w, func, r) ==
    [exc |-> r.exc, msg |-> r.msg, client |-> r.client,
     w |-> [w EXCEPT !.ev = Append(@, Event("query", func, 0)) \o
                            [i \in 1..Len(r.unwraps) |->
                                Event("unwrap", r.unwraps[i].via, 0)] \o
                            (IF r.exc = NoExc THEN <<>>
                             ELSE IF r.msg = "" THEN <<Event("raise", r.exc, 0)>>
                             ELSE <<Event("raise", r.exc \o ": " \o r.msg, 0)>>)]]

\* _query_master(func, opts, unwrap_client=...): the request, then check_result
QueryMaster(w, func, unwrap_client, env) ==
    Queried(w, func, CheckResult(MasterResponse(func, env, opts.method),
                                 unwrap_client, opts, env.vault))

----------------------------------------------------------------------------
(* parse_config, as far as the client factory reads its result *)

DefaultLifecycle ==
    [minimum_ttl |-> DefaultMinimumTtl, renew_increment |-> "None"]

\* auth.token_lifecycle of the merged configuration: the defaults, replaced by
\* the local opts["vault"] value when that is set
TokenLifecycle(local) ==
    IF local.lifecycle # None THEN Val(local.lifecycle) ELSE DefaultLifecycle

\* the validation at the end of parse_config: "" when the configuration passes
ValidationError(raw) ==
    IF raw.method = "approle"
    THEN (IF ~raw.role_id THEN "InvalidConfigError" ELSE NoExc)
    ELSE IF raw.method = "token"
    THEN (IF ~raw.token THEN "InvalidConfigError" ELSE NoExc)
    ELSE "InvalidConfigError"

\* parse_config's result as far as the factory reads it; token is auth.token
Config(raw, server, token) ==
    [method |-> raw.method, secret_id |-> raw.secret_id, token |-> token,
     token_lifecycle |-> TokenLifecycle(opts), server |-> server]

NoConfig ==
    [method |-> "", secret_id |-> FALSE, token |-> None,
     token_lifecycle |-> DefaultLifecycle,
     server |-> [url |-> "", verify |-> "None"]]

\* a faulty pop: the token is read but stays in the configuration
PopTokenKept(config) ==
    [config |-> config, embedded_token |-> config.token]

\* embedded_token = config["auth"].pop("token", None), then the record
\* {"auth", "cache", "server"} is built from what is left
PopToken(config) ==
    [config |-> [config EXCEPT !.token = None], embedded_token |-> config.token]

VaultClient(server) == Some([origin |-> "supplied", server |-> server])

\* an embedded token: the plain string of the local configuration, or the
\* token record the controller embedded in its configuration
PlainToken == Some([kind |-> "plain", lease |-> None])
DictToken(l) == Some([kind |-> "dict", lease |-> Some(l)])

----------------------------------------------------------------------------
(* _get_connection_config and _use_local_config *)

ConnFail(exc, msg, w) ==
    [exc |-> exc, msg |-> msg, w |-> w, config |-> NoConfig,
     embedded |-> None, unauthd |-> None]

LocalServer ==
    [url |-> "https://a",
     verify |-> IF opts.verify = "NOT_SET" THEN "None" ELSE opts.verify]

UseLocalConfig(w) ==
    LET popped == PopToken(Config(opts, LocalServer,
                                  IF opts.token THEN PlainToken ELSE None))
    IN  IF ValidationError(opts) # NoExc
        THEN ConnFail(ValidationError(opts), "", w)
        ELSE [exc |-> NoExc, msg |-> "", w |-> w,
              config |-> popped.config,
              embedded |-> popped.embedded_token,
              unauthd |-> VaultClient(LocalServer)]

\* clearing the connection bank resets all connection-scoped data, the
\* session scope below it included
FlushConnection(w, bank) ==
    [w EXCEPT !.context[bank] = None, !.tokens[bank] = None,
              !.secrets[bank] = None,
              !.cfgcache = IF bank = "remote" THEN None ELSE @]

\* config = parse_config(config, opts=opts); pop the token; config_cache.store
StoreRemoteConfig(w, q, env, legacy) ==
    LET server == ReportedServer([url |-> env.url, verify |-> "None"], opts)
        raw == [opts EXCEPT !.token = (opts.method = "token")]
        token == IF raw.method # "token" THEN None
                 ELSE IF legacy THEN PlainToken
                 ELSE DictToken(FreshLease("embedded", env))
        popped == PopToken(Config(raw, server, token))
        w1 == Log([q.w EXCEPT !.cfgcache = Some(popped.config)],
                  Event("store_config", "", 0))
    IN  IF ValidationError(raw) # NoExc
        THEN ConnFail(ValidationError(raw), "", q.w)
        ELSE [exc |-> NoExc, msg |-> "", w |-> w1, config |-> popped.config,
              embedded |-> popped.embedded_token,
              unauthd |-> q.client]

\* lines 218-232: only the empty peer return falls back to generate_token
FallbackConfig(w, env, q2) ==
    IF q2.exc = NoExc THEN StoreRemoteConfig(w, q2, env, env.mode = "legacy")
    ELSE ConnFail(q2.exc, q2.msg, q2.w)

\* a faulty fallback: every VaultConfigExpired falls back to generate_token
RequestedConfigAlwaysFallback(w, env, q1) ==
    IF q1.exc = NoExc THEN StoreRemoteConfig(w, q1, env, FALSE)
    ELSE IF q1.exc = "VaultConfigExpired"
    THEN FallbackConfig(w, env, QueryMaster(q1.w, "generate_token", None, env))
    ELSE ConnFail(q1.exc, q1.msg, q1.w)

\* lines 209-232, with the answer to get_config
RequestedConfig(w, env, q1) ==
    IF q1.exc = NoExc THEN StoreRemoteConfig(w, q1, env, FALSE)
    ELSE IF q1.exc = "VaultConfigExpired" /\ q1.msg = "Peer runner return was empty"
    THEN FallbackConfig(w, env, QueryMaster(q1.w, "generate_token", None, env))
    ELSE ConnFail(q1.exc, q1.msg, q1.w)

GetConnectionConfig(w, env, force_local) ==
    IF IsLocal(force_local) THEN UseLocalConfig(w)
    ELSE IF w.cfgcache # None
    THEN [exc |-> NoExc, msg |-> "", w |-> w,
          config |-> Val(w.cfgcache), embedded |-> None,
          unauthd |-> VaultClient(Val(w.cfgcache).server)]
    ELSE RequestedConfig(w, env, QueryMaster(w, "get_config", None, env))

----------------------------------------------------------------------------
(* _fetch_token and _fetch_secret_id *)

FetchFail(exc, w) == [exc |-> exc, w |-> w, lease |-> None]

\* token_cache.store(token) / secret_id_cache.store(secret_id) in factory.py
StoreToken(w, bank, token) ==
    Log([w EXCEPT !.tokens[bank] = Some(token)],
        Event("store_token", token.id, token.num_uses))

StoreSecretId(w, bank, secret_id) ==
    Log([w EXCEPT !.secrets[bank] = Some(secret_id)],
        Event("store_secret_id", secret_id.id, secret_id.num_uses))

\* lines 344-346: do not cache single-use tokens
CacheIssuedToken(w, bank, token) ==
    IF token.num_uses # 1 THEN StoreToken(w, bank, token) ELSE w

\* lines 280-282: do not cache single-use secret IDs
CacheIssuedSecretId(w, bank, secret_id) ==
    IF secret_id.num_uses # 1 THEN StoreSecretId(w, bank, secret_id) ELSE w

\* lines 372-389: a plain configured token is looked up, verified and cached
FetchLocalPlainToken(w, bank, env, unwrap_client) ==
    LET g == CacheGet(w.tokens[bank], 0)
        w1 == [w EXCEPT !.tokens[bank] = g.slot]
        w2 == Log(w1, Event("token_lookup", "", 0))
        token == FreshLease("local", env)
    IN  IF g.val # None /\ Val(g.val).id = "local"
        THEN [exc |-> NoExc, w |-> w1, lease |-> g.val]
        ELSE IF env.vault # "ok" THEN FetchFail("VaultException", w2)
        ELSE [exc |-> NoExc, w |-> StoreToken(w2, bank, token),
              lease |-> Some(token)]

\* the call log of one cache.get(valid_for): whether the entry was handed
\* out ("hit"), was there but not valid for that long ("stale") or was
\* missing ("absent"), and the time it had left
CacheRead(w, op, slot, valid_for) ==
    Log(w, Event(op,
                 IF slot = None THEN "absent"
                 ELSE IF LeaseValid(Val(slot), valid_for) THEN "hit" ELSE "stale",
                 IF slot = None THEN 0 ELSE Val(slot).left))

\* the token cache_or_fetch returns, with its origin, in the call log
FetchedToken(w, origin, token) ==
    [exc |-> NoExc, w |-> Log(w, Event("fetch_token", origin, token.left)),
     lease |-> Some(token)]

\* lines 329-347: the token of a generate_new_token answer
IssuedToken(bank, env, q) ==
    IF q.exc # NoExc THEN FetchFail(q.exc, q.w)
    ELSE FetchedToken(CacheIssuedToken(q.w, bank, FreshLease("issued", env)),
                      "issued", FreshLease("issued", env))

\* a faulty cache_or_fetch: any token that has not expired will do
CacheOrFetchTokenUnexpired(w, bank, env, unwrap_client, embedded_token) ==
    LET g == CacheGet(w.tokens[bank], 0)
        w1 == CacheRead([w EXCEPT !.tokens[bank] = g.slot], "token_cache.get",
                        w.tokens[bank], 0)
        token == IF embedded_token # None /\ Val(embedded_token).kind = "dict"
                 THEN Val(embedded_token).lease ELSE None
    IN  IF g.val # None THEN FetchedToken(w1, "cached", Val(g.val))
        ELSE IF token = None \/ ~LeaseValid(Val(token), 0)
        THEN IssuedToken(bank, env,
                 QueryMaster(w1, "generate_new_token", unwrap_client, env))
        ELSE FetchedToken(CacheIssuedToken(w1, bank, Val(token)), "embedded",
                          Val(token))

\* _fetch_token.cache_or_fetch
CacheOrFetchToken(w, bank, env, unwrap_client, embedded_token) ==
    LET g == CacheGet(w.tokens[bank], CachedTokenMinTtl)
        w1 == CacheRead([w EXCEPT !.tokens[bank] = g.slot], "token_cache.get",
                        w.tokens[bank], CachedTokenMinTtl)
        token == IF embedded_token # None /\ Val(embedded_token).kind = "dict"
                 THEN Val(embedded_token).lease ELSE None
    IN  IF g.val # None THEN FetchedToken(w1, "cached", Val(g.val))
        ELSE IF token = None \/ ~LeaseValid(Val(token), CachedTokenMinTtl)
        THEN IssuedToken(bank, env,
                 QueryMaster(w1, "generate_new_token", unwrap_client, env))
        ELSE FetchedToken(CacheIssuedToken(w1, bank, Val(token)), "embedded",
                          Val(token))

\* _fetch_token
FetchToken(w, bank, env, config, unwrap_client, force_local, embedded_token) ==
    IF IsLocal(force_local)
    THEN IF config.method = "wrapped_token"
         THEN LET w1 == Log(w, Event("unwrap", Val(unwrap_client).origin, 0))
              IN  IF env.vault # "ok"
                  THEN FetchFail("VaultPermissionDeniedError", w1)
                  ELSE [exc |-> NoExc, w |-> w1,
                        lease |-> Some(FreshLease("unwrapped", env))]
         ELSE IF embedded_token # None
         THEN FetchLocalPlainToken(w, bank, env, unwrap_client)
         ELSE FetchFail("VaultException", w)
    ELSE CacheOrFetchToken(w, bank, env, unwrap_client, embedded_token)

\* lines 267-283: the secret ID of a generate_secret_id answer
IssuedSecret(bank, env, q) ==
    IF q.exc # NoExc THEN [exc |-> q.exc, w |-> q.w, secret |-> NoSecret]
    ELSE [exc |-> NoExc,
          w |-> CacheIssuedSecretId(q.w, bank, FreshSecretId(env)),
          secret |-> IssuedSecretId(FreshSecretId(env))]

\* _fetch_secret_id.cache_or_fetch
CacheOrFetchSecretId(w, bank, env, unwrap_client) ==
    LET g == CacheGet(w.secrets[bank], 0)
        w1 == CacheRead([w EXCEPT !.secrets[bank] = g.slot],
                        "secret_id_cache.get", w.secrets[bank], 0)
    IN  IF g.val # None
        THEN [exc |-> NoExc, w |-> w1, secret |-> IssuedSecretId(Val(g.val))]
        ELSE IssuedSecret(bank, env,
                 QueryMaster(w1, "generate_secret_id", unwrap_client, env))

\* the result is the secret of the VaultAppRole; the call is logged
FetchSecretId(w, bank, env, config, unwrap_client, force_local) ==
    IF IsLocal(force_local)
    THEN IF config.secret_id
         THEN [exc |-> NoExc, w |-> Log(w, Event("fetch_secret_id", "", 0)),
               secret |-> LocalVaultSecretId]
         ELSE [exc |-> "SaltException", w |-> Log(w, Event("fetch_secret_id", "", 0)),
               secret |-> NoSecret]
    ELSE CacheOrFetchSecretId(Log(w, Event("fetch_secret_id", "", 0)), bank, env,
                              unwrap_client)

----------------------------------------------------------------------------
(* _build_authd_client *)

NoClient ==
    [auth |-> [method |-> "", token |-> None, secret |-> NoSecret],
     server |-> [url |-> "", verify |-> "None"]]

BuildFail(exc, w) ==
    [exc |-> exc, w |-> w, client |-> NoClient, config |-> NoConfig]

\* vclient.AuthenticatedVaultClient(auth, session=unauthd_client.session, ...)
AuthenticatedVaultClient(w, auth, unauthd_client, config) ==
    IF unauthd_client = None THEN BuildFail("AttributeError", w)
    ELSE [exc |-> NoExc, w |-> w,
          client |-> [auth |-> auth, server |-> config.server],
          config |-> config]

AppRoleAuth(token, secret) ==
    [method |-> "approle", token |-> token, secret |-> secret]

\* lines 145-169, with the fetched secret ID
AppRoleFetched(f, token, c) ==
    IF f.exc # NoExc THEN BuildFail(f.exc, f.w)
    ELSE AuthenticatedVaultClient(f.w, AppRoleAuth(token, f.secret), c.unauthd,
                                  c.config)

\* a faulty builder: the secret-ID cache is made and read, and a secret ID
\* fetched, whether or not auth.secret_id is set
BuildAppRoleUnguarded(w, bank, env, c, force_local) ==
    LET gt == CacheGet(w.tokens[bank], CachedTokenMinTtl)
        w1 == CacheRead([w EXCEPT !.tokens[bank] = gt.slot], "token_cache.get",
                        w.tokens[bank], CachedTokenMinTtl)
        gs == CacheGet(w1.secrets[bank], 0)
        w2 == CacheRead([w1 EXCEPT !.secrets[bank] = gs.slot],
                        "secret_id_cache.get", w1.secrets[bank], 0)
    IN  IF gs.val # None
        THEN AuthenticatedVaultClient(w2,
                 AppRoleAuth(gt.val, IssuedSecretId(Val(gs.val))),
                 c.unauthd, c.config)
        ELSE IF gt.val = None
        THEN AppRoleFetched(FetchSecretId(w2, bank, env, c.config, c.unauthd,
                                          force_local), gt.val, c)
        ELSE AuthenticatedVaultClient(w2, AppRoleAuth(gt.val, InvalidVaultSecretId),
                                      c.unauthd, c.config)

\* a faulty builder: a secret ID is fetched whenever none is cached
BuildAppRoleAlwaysFetching(w, bank, env, c, force_local) ==
    LET gt == CacheGet(w.tokens[bank], CachedTokenMinTtl)
        w1 == CacheRead([w EXCEPT !.tokens[bank] = gt.slot], "token_cache.get",
                        w.tokens[bank], CachedTokenMinTtl)
        gs == CacheGet(w1.secrets[bank], 0)
        w2 == CacheRead([w1 EXCEPT !.secrets[bank] = gs.slot],
                        "secret_id_cache.get", w1.secrets[bank], 0)
    IN  IF ~c.config.secret_id
        THEN AuthenticatedVaultClient(w1, AppRoleAuth(gt.val, NoSecret),
                                      c.unauthd, c.config)
        ELSE IF gs.val # None
        THEN AuthenticatedVaultClient(w2,
                 AppRoleAuth(gt.val, IssuedSecretId(Val(gs.val))),
                 c.unauthd, c.config)
        ELSE AppRoleFetched(FetchSecretId(w2, bank, env, c.config, c.unauthd,
                                          force_local), gt.val, c)

\* lines 129-169
BuildAppRole(w, bank, env, c, force_local) ==
    LET gt == CacheGet(w.tokens[bank], CachedTokenMinTtl)
        w1 == CacheRead([w EXCEPT !.tokens[bank] = gt.slot], "token_cache.get",
                        w.tokens[bank], CachedTokenMinTtl)
        gs == CacheGet(w1.secrets[bank], 0)
        w2 == CacheRead([w1 EXCEPT !.secrets[bank] = gs.slot],
                        "secret_id_cache.get", w1.secrets[bank], 0)
    IN  IF ~c.config.secret_id
        THEN AuthenticatedVaultClient(w1, AppRoleAuth(gt.val, NoSecret),
                                      c.unauthd, c.config)
        ELSE IF gs.val # None
        THEN AuthenticatedVaultClient(w2,
                 AppRoleAuth(gt.val, IssuedSecretId(Val(gs.val))),
                 c.unauthd, c.config)
        ELSE IF gt.val = None
        THEN AppRoleFetched(FetchSecretId(w2, bank, env, c.config, c.unauthd,
                                          force_local), gt.val, c)
        ELSE AuthenticatedVaultClient(w2, AppRoleAuth(gt.val, InvalidVaultSecretId),
                                      c.unauthd, c.config)

\* lines 179-182, with the fetched token
TokenFetched(f, c) ==
    IF f.exc # NoExc THEN BuildFail(f.exc, f.w)
    ELSE AuthenticatedVaultClient(f.w,
             [method |-> "token", token |-> f.lease, secret |-> NoSecret],
             c.unauthd, c.config)

\* lines 170-182
BuildToken(w, bank, env, c, force_local) ==
    TokenFetched(FetchToken(w, bank, env, c.config, c.unauthd, force_local,
                            c.embedded), c)

\* lines 113-186, with the connection configuration
BuildWithConfig(c, bank, env, force_local) ==
    IF c.exc # NoExc THEN BuildFail(c.exc, c.w)
    ELSE IF c.config.method = "approle"
    THEN BuildAppRole(c.w, bank, env, c, force_local)
    ELSE IF c.config.method \in {"token", "wrapped_token"}
    THEN BuildToken(c.w, bank, env, c, force_local)
    ELSE BuildFail("SaltException", c.w)

BuildAuthdClient(w, env, force_local) ==
    BuildWithConfig(GetConnectionConfig(Log(w, Event("build", "", 0)), env,
                                        force_local),
                    CacheBank(force_local), env, force_local)

----------------------------------------------------------------------------
(* The client's own operations, as get_authd_client calls them *)

\* client.token_valid(valid_for, remote=False)
TokenValid(client, valid_for) == AuthValid(client.auth, valid_for)

\* auth.used(): the token counts a use; a use-limited token is written back
AuthUsed(w, bank, client) ==
    LET token == Used(Val(client.auth.token))
    IN  [w |-> IF token.num_uses # 0
               THEN [w EXCEPT !.tokens[bank] = Some(token)] ELSE w,
         client |-> [client EXCEPT !.auth.token = Some(token)]]

\* client.auth.get_token(): the valid token; an AppRole logs in for a new one
\* when its secret ID is valid; otherwise VaultAuthExpired
GetToken(w, bank, client, env) ==
    LET auth == client.auth
        secret == IF auth.secret.kind = "lease"
                  THEN IssuedSecretId(Used(Val(auth.secret.lease)))
                  ELSE auth.secret
        token == FreshLease("login", env)
        w1 == Log(w, Event("login", "", 0))
        w2 == [w1 EXCEPT !.tokens[bank] = Some(token),
                         !.secrets[bank] =
                            IF secret.kind # "lease" \/ Val(secret.lease).num_uses = 0
                            THEN @
                            ELSE IF SecretValid(secret, 0) THEN secret.lease
                            ELSE None]
    IN  IF auth.token # None /\ LeaseValid(Val(auth.token), 0)
        THEN [exc |-> NoExc, w |-> w, client |-> client]
        ELSE IF auth.method = "approle" /\ SecretValid(auth.secret, 0)
        THEN (IF env.vault # "ok"
              THEN [exc |-> "VaultPermissionDeniedError", w |-> w1, client |-> client]
              ELSE [exc |-> NoExc, w |-> w2,
                    client |-> [client EXCEPT !.auth.token = Some(token),
                                              !.auth.secret = secret]])
        ELSE [exc |-> "VaultAuthExpired", w |-> w, client |-> client]

\* client.token_valid(): the local check, then a lookup of the own token at
\* the backend, which consumes a token use
TokenValidRemote(w, bank, client, env) ==
    LET g == GetToken(Log(w, Event("token_lookup", "self", 0)), bank, client, env)
        u == AuthUsed(g.w, bank, g.client)
    IN  IF ~AuthValid(client.auth, 0)
        THEN [exc |-> NoExc, valid |-> FALSE, w |-> w, client |-> client]
        ELSE IF g.exc # NoExc
        THEN [exc |-> "CommandExecutionError", valid |-> FALSE, w |-> g.w,
              client |-> g.client]
        ELSE [exc |-> NoExc, valid |-> env.vault = "ok", w |-> u.w,
              client |-> u.client]

\* client.token_renew(increment=...): a request with the token; the backend
\* grants a new lifetime and the renewed token is written back
TokenRenew(w, bank, client, increment, env) ==
    LET w1 == Log(w, Event("token_renew", increment, 0))
        u == AuthUsed(w1, bank, client)
        token == [Val(u.client.auth.token) EXCEPT !.dur = env.ttl, !.left = env.ttl]
    IN  IF env.vault # "ok"
        THEN [exc |-> "VaultPermissionDeniedError", w |-> u.w, client |-> u.client]
        ELSE [exc |-> NoExc, w |-> [u.w EXCEPT !.tokens[bank] = Some(token)],
              client |-> [u.client EXCEPT !.auth.token = Some(token)]]

\* vcache.clear_cache(opts, context, force_local=force_local)
ClearCache(w, bank) ==
    Log(FlushConnection(w, bank), Event("clear_cache", "", 0))

----------------------------------------------------------------------------
(* get_authd_client *)

Handle(client, config) == [client |-> client, config |-> config]

\* what one call did, kept for the properties
Obs(force_local, pre) ==
    [force_local |-> force_local, pre |-> pre, held |-> FALSE, invalid |-> FALSE,
     build1 |-> "skipped", retry |-> FALSE, lifecycle |-> None, live |-> None,
     renewed |-> FALSE, gated |-> None, gate1 |-> "skipped",
     build2 |-> "skipped", rebuilt |-> None, gate2 |-> "skipped",
     exc |-> NoExc, returned |-> None, ev |-> <<>>]

Finish(o, w) == [w |-> [w EXCEPT !.ev = <<>>], obs |-> [o EXCEPT !.ev = w.ev]]

Raise(o, w, exc) == Finish([o EXCEPT !.exc = exc], w)

\* a faulty renewal test: truthiness of renew_increment instead of `is not False`
NeedsRenewalTruthy(token, lifecycle) ==
    /\ lifecycle.renew_increment \notin {"False", "None"}
    /\ token.renewable
    /\ ~LeaseValid(token, lifecycle.minimum_ttl)

\* lines 65-72, after the retry test: is the live token to be renewed
NeedsRenewal(token, lifecycle) ==
    /\ lifecycle.renew_increment # "False"
    /\ token.renewable
    /\ ~LeaseValid(token, lifecycle.minimum_ttl)

\* a faulty gate: every token passes
FailsGateNever(client, config) == FALSE

\* lines 80-82 and 86-88: the token fails the minimum-TTL gate
FailsGate(client, config) ==
    ~TokenValid(client, config.token_lifecycle.minimum_ttl)

\* a faulty rebuild test: the gate is ignored
NeedsRebuildOnRetryOnly(retry, client, config) == retry

\* lines 80-82: purge and rebuild
NeedsRebuild(retry, client, config) ==
    retry \/ FailsGate(client, config)

\* a faulty second gate: always a terminal failure
AfterFailedGateStrict(config) == "VaultException"

\* lines 89-97: a rebuilt client that fails the gate
AfterFailedGate(config) ==
    IF config.token_lifecycle.minimum_ttl # 0 THEN "warning" ELSE "VaultException"

\* a faulty return: the pair is handed back without being put in the context
ReturnWithoutStore(o, w, bank, client, config) ==
    Finish([o EXCEPT !.returned = Some(Handle(client, config))], w)

\* lines 99-105
StoreAndReturn(o, w, bank, client, config) ==
    Finish([o EXCEPT !.returned = Some(Handle(client, config))],
           [w EXCEPT !.context[bank] = Some(Handle(client, config))])

\* lines 85-97, with the rebuilt client
Rebuilt(o, bank, b) ==
    IF b.exc # NoExc THEN Raise([o EXCEPT !.build2 = b.exc], b.w, b.exc)
    ELSE IF ~FailsGate(b.client, b.config)
    THEN StoreAndReturn([o EXCEPT !.build2 = NoExc, !.gate2 = "pass",
                                  !.rebuilt = Some(Handle(b.client, b.config))],
                        b.w, bank, b.client, b.config)
    ELSE IF AfterFailedGate(b.config) = "warning"
    THEN StoreAndReturn([o EXCEPT !.build2 = NoExc, !.gate2 = "fail",
                                  !.rebuilt = Some(Handle(b.client, b.config))],
                        Log(b.w, Event("warning", "", 0)), bank, b.client,
                        b.config)
    ELSE Raise([o EXCEPT !.build2 = NoExc, !.gate2 = "fail",
                         !.rebuilt = Some(Handle(b.client, b.config))], b.w,
               AfterFailedGate(b.config))

\* lines 78-97
FinalGate(o, w, bank, env, force_local, retry, client, config) ==
    IF NeedsRebuild(retry, client, config)
    THEN Rebuilt([o EXCEPT !.gate1 = IF retry THEN "skipped" ELSE "fail",
                           !.gated = IF retry THEN None
                                     ELSE Some(Handle(client, config))], bank,
                 BuildAuthdClient(ClearCache(w, bank), env, force_local))
    ELSE StoreAndReturn([o EXCEPT !.gate1 = "pass",
                                  !.gated = Some(Handle(client, config))],
                        w, bank, client, config)

\* a client taken from the context is the object the context holds
Keep(held, w, bank, client, config) ==
    IF held THEN [w EXCEPT !.context[bank] = Some(Handle(client, config))] ELSE w

\* lines 73-76, with the answer to the renewal
Renewed(o, bank, env, force_local, held, config, r) ==
    IF r.exc # NoExc THEN Raise(o, Keep(held, r.w, bank, r.client, config), r.exc)
    ELSE FinalGate([o EXCEPT !.renewed = TRUE],
                   Keep(held, r.w, bank, r.client, config), bank, env,
                   force_local, FALSE, r.client, config)

\* a faulty renewal step: the live token is renewed whatever its state
LiveTokenAlwaysRenewed(o, bank, env, force_local, held, config, g) ==
    IF g.exc # NoExc THEN Raise(o, Keep(held, g.w, bank, g.client, config), g.exc)
    ELSE Renewed([o EXCEPT !.live = g.client.auth.token], bank, env, force_local,
                 held, config,
                 TokenRenew(g.w, bank, g.client,
                            config.token_lifecycle.renew_increment, env))

\* lines 68-76, with the live token
LiveToken(o, bank, env, force_local, held, config, g) ==
    IF g.exc # NoExc THEN Raise(o, Keep(held, g.w, bank, g.client, config), g.exc)
    ELSE IF NeedsRenewal(Val(g.client.auth.token), config.token_lifecycle)
    THEN Renewed([o EXCEPT !.live = g.client.auth.token], bank, env, force_local,
                 held, config,
                 TokenRenew(g.w, bank, g.client,
                            config.token_lifecycle.renew_increment, env))
    ELSE FinalGate([o EXCEPT !.live = g.client.auth.token],
                   Keep(held, g.w, bank, g.client, config), bank, env,
                   force_local, FALSE, g.client, config)

\* lines 62-76
Renewal(o, w, bank, env, force_local, held, client, config) ==
    IF config.token_lifecycle.renew_increment = "False"
    THEN FinalGate([o EXCEPT !.lifecycle = Some(config.token_lifecycle)], w, bank,
                   env, force_local, FALSE, client, config)
    ELSE LiveToken([o EXCEPT !.lifecycle = Some(config.token_lifecycle)], bank,
                   env, force_local, held, config, GetToken(w, bank, client, env))

\* a faulty first build: a recoverable error is answered by building again
\* in place before the purge is signalled
FirstBuiltRetrying(o, bank, env, force_local, b) ==
    LET b2 == IF b.exc \in Recoverable
              THEN BuildAuthdClient(b.w, env, force_local) ELSE b
    IN  IF b2.exc \in Recoverable
        THEN FinalGate([o EXCEPT !.build1 = b2.exc, !.retry = TRUE], b2.w, bank,
                       env, force_local, TRUE, NoClient, NoConfig)
        ELSE IF b2.exc # NoExc THEN Raise([o EXCEPT !.build1 = b2.exc], b2.w, b2.exc)
        ELSE Renewal([o EXCEPT !.build1 = NoExc], b2.w, bank, env, force_local,
                     FALSE, b2.client, b2.config)

\* lines 57-60, with the result of the first build
FirstBuilt(o, bank, env, force_local, b) ==
    IF b.exc \in Recoverable
    THEN FinalGate([o EXCEPT !.build1 = b.exc, !.retry = TRUE], b.w, bank, env,
                   force_local, TRUE, NoClient, NoConfig)
    ELSE IF b.exc # NoExc THEN Raise([o EXCEPT !.build1 = b.exc], b.w, b.exc)
    ELSE Renewal([o EXCEPT !.build1 = NoExc], b.w, bank, env, force_local, FALSE,
                 b.client, b.config)

\* lines 54-60
FirstBuild(o, w, bank, env, force_local) ==
    FirstBuilt(o, bank, env, force_local, BuildAuthdClient(w, env, force_local))

\* a faulty lookup: an invalid handle is dropped locally but left in the context
FoundLeavingInvalid(o, bank, env, force_local, h, tv) ==
    IF tv.exc # NoExc
    THEN Raise(o, Keep(TRUE, tv.w, bank, tv.client, h.config), tv.exc)
    ELSE IF ~tv.valid
    THEN FirstBuild([o EXCEPT !.invalid = TRUE],
                    Keep(TRUE, tv.w, bank, tv.client, h.config), bank, env,
                    force_local)
    ELSE Renewal([o EXCEPT !.held = TRUE],
                 Keep(TRUE, tv.w, bank, tv.client, h.config), bank, env,
                 force_local, TRUE, tv.client, h.config)

\* lines 46-52, with the answer of client.token_valid()
Found(o, bank, env, force_local, h, tv) ==
    IF tv.exc # NoExc
    THEN Raise(o, Keep(TRUE, tv.w, bank, tv.client, h.config), tv.exc)
    ELSE IF ~tv.valid
    THEN FirstBuild([o EXCEPT !.invalid = TRUE],
                    Log([tv.w EXCEPT !.context[bank] = None],
                        Event("context.pop", "", 0)),
                    bank, env, force_local)
    ELSE Renewal([o EXCEPT !.held = TRUE],
                 Keep(TRUE, tv.w, bank, tv.client, h.config), bank, env,
                 force_local, TRUE, tv.client, h.config)

\* lines 36-105
GetAuthdClient(w, env, force_local) ==
    IF w.context[CacheBank(force_local)] = None
    THEN FirstBuild(Obs(force_local, None), w, CacheBank(force_local), env,
                    force_local)
    ELSE Found(Obs(force_local, w.context[CacheBank(force_local)]),
               CacheBank(force_local), env, force_local,
               Val(w.context[CacheBank(force_local)]),
               TokenValidRemote(w, CacheBank(force_local),
                                Val(w.context[CacheBank(force_local)]).client, env))

----------------------------------------------------------------------------
(* The state machine *)

Methods == {"token", "approle", "wrapped_token"}

DisabledRenewal ==
    Some([minimum_ttl |-> DefaultMinimumTtl, renew_increment |-> "False"])

Lifecycles ==
    {None, DisabledRenewal,
     Some([minimum_ttl |-> 0, renew_increment |-> "None"]),
     Some([minimum_ttl |-> DefaultMinimumTtl, renew_increment |-> "20s"])}

\* the local configurations opts["vault"] of the model
LocalConfigs ==
    {c \in [method : Methods, token : BOOLEAN, role_id : {TRUE},
            secret_id : BOOLEAN, lifecycle : Lifecycles, verify : {"NOT_SET"}] :
        /\ c.method # "approle" => ~c.secret_id
        /\ c.method # "token" => ~c.token
        /\ c.method = "wrapped_token" => c.lifecycle = None
        /\ (c.method = "token" /\ ~c.token) => c.lifecycle = None
        /\ c.secret_id => c.lifecycle \in {None, DisabledRenewal}}

\* what the backend issues: long leases are renewable, short ones are not and
\* carry no use limit
Issues ==
    {i \in [ttl : {ShortTtl, LongTtl}, uses : 0..MaxUses, renewable : BOOLEAN] :
        /\ i.renewable = (i.ttl = LongTtl)
        /\ i.uses > 0 => i.ttl = LongTtl}

\* the controller's server and wrapping vary only while it answers normally,
\* what is issued only while the backend answers
Envs ==
    {e \in [mode : MasterModes, url : Urls, wrap : BOOLEAN, vault : VaultModes,
            ttl : {ShortTtl, LongTtl}, uses : 0..MaxUses, renewable : BOOLEAN] :
        /\ [ttl |-> e.ttl, uses |-> e.uses, renewable |-> e.renewable] \in Issues
        /\ e.mode # "ok" => e.url = "https://a" /\ e.wrap
        /\ e.vault # "ok" => e.ttl = LongTtl /\ e.uses = 0}

\* a local call never asks the controller: one controller answer stands for all
EnvsFor(force_local) ==
    IF IsLocal(force_local)
    THEN {e \in Envs : e.mode = "ok" /\ e.url = "https://a" /\ e.wrap}
    ELSE Envs

World == [context |-> context, tokens |-> tokens, secrets |-> secrets,
          cfgcache |-> cfgcache, ev |-> <<>>]

Init ==
    /\ runtype \in RunTypes
    /\ opts \in LocalConfigs
    /\ force_arg \in BOOLEAN
    /\ force_arg => runtype # "MINION_LOCAL"
    /\ context = [b \in Banks |-> None]
    /\ tokens = [b \in Banks |-> None]
    /\ secrets = [b \in Banks |-> None]
    /\ cfgcache = None
    /\ last = None
    /\ qm = None
    /\ pc = None
    /\ procs = None
    /\ controller = "https://a"

Commit(r) ==
    /\ context' = r.w.context
    /\ tokens' = r.w.tokens
    /\ secrets' = r.w.secrets
    /\ cfgcache' = r.w.cfgcache
    /\ last' = Some(r.obs)
    /\ UNCHANGED <<runtype, opts, force_arg, qm, pc, procs, controller>>

\* one get_authd_client(opts, context, force_local) call
Call ==
    \E env \in EnvsFor(force_arg) :
        Commit(GetAuthdClient(World, env, force_arg))

AgedSlot(slot) == IF slot = None THEN None ELSE Some(Aged(Val(slot)))

AgedSecret(s) == [s EXCEPT !.lease = AgedSlot(@)]

AgedHandle(h) ==
    IF h = None THEN None
    ELSE Some([Val(h) EXCEPT !.client.auth.token = AgedSlot(@),
                             !.client.auth.secret = AgedSecret(@)])

\* time passes between two calls
Tick ==
    /\ context' = [b \in Banks |-> AgedHandle(context[b])]
    /\ tokens' = [b \in Banks |-> AgedSlot(tokens[b])]
    /\ secrets' = [b \in Banks |-> AgedSlot(secrets[b])]
    /\ last' = None
    /\ <<context', tokens', secrets'>> # <<context, tokens, secrets>>
    /\ UNCHANGED <<runtype, opts, force_arg, cfgcache, qm, pc, procs, controller>>

Requested(bank, h, g) ==
    /\ g.exc = NoExc
    /\ context' = [context EXCEPT ![bank] =
                     Some(Handle(AuthUsed(g.w, bank, g.client).client, h.config))]
    /\ tokens' = AuthUsed(g.w, bank, g.client).w.tokens
    /\ secrets' = g.w.secrets

\* the caller makes one request with the client it was handed
UseClient ==
    /\ context[CacheBank(force_arg)] # None
    /\ \E env \in EnvsFor(TRUE) :
        /\ env.vault = "ok"
        /\ Requested(CacheBank(force_arg), Val(context[CacheBank(force_arg)]),
                     GetToken(World, CacheBank(force_arg),
                              Val(context[CacheBank(force_arg)]).client, env))
    /\ last' = None
    /\ UNCHANGED <<runtype, opts, force_arg, cfgcache, qm, pc, procs, controller>>

Next ==
    \/ Call
    \/ Tick
    \/ UseClient

Spec == Init /\ [][Next]_vars

----------------------------------------------------------------------------
(* _query_master.check_result on its own: every controller response, with   *)
(* and without a client supplied by the caller                               *)

Verifies == {"None", "True"}

Servers == [url : Urls, verify : Verifies]

NestedLists ==
    {<<>>} \cup {<<p>> : p \in Paths}
           \cup {<<p, q>> : <<p, q>> \in {pq \in Paths \X Paths : pq[1] # pq[2]}}

Responses ==
    {r \in [kind : {"empty", "nondict", "dict"}, error : BOOLEAN,
            expire_cache : BOOLEAN,
            server : {None} \cup {Some(sv) : sv \in Servers},
            wrap_info : BOOLEAN, wrap_info_nested : NestedLists,
            wrapped : SUBSET Paths] :
        r.kind # "dict" =>
            /\ ~r.error /\ ~r.expire_cache /\ r.server = None
            /\ ~r.wrap_info /\ r.wrap_info_nested = <<>> /\ r.wrapped = {}}

SuppliedClients == {None} \cup {VaultClient(sv) : sv \in Servers}

InitQM ==
    /\ runtype = "MINION_REMOTE"
    /\ opts \in {c \in [method : {"token"}, token : {FALSE}, role_id : {TRUE},
                        secret_id : {FALSE}, lifecycle : {None},
                        verify : {"NOT_SET", "True"}] : TRUE}
    /\ force_arg = FALSE
    /\ context = [b \in Banks |-> None]
    /\ tokens = [b \in Banks |-> None]
    /\ secrets = [b \in Banks |-> None]
    /\ cfgcache = None
    /\ last = None
    /\ qm = None
    /\ pc = None
    /\ procs = None
    /\ controller = "https://a"

\* The payload of a response: its data and auth sub-trees and its misc_data,
\* each a mapping from keys to values (or absent).  The model follows the
\* credential key and the one metadata key the controller adds.
CredKey == "secret_id"
MetaKey == "secret_id_num_uses"

Tree(dom, meta) == [k \in dom |-> IF k = MetaKey THEN meta ELSE "credential"]

DataTrees ==
    {None, Some(Tree({}, "")), Some(Tree({CredKey}, "")),
     Some(Tree({CredKey, MetaKey}, "held"))}

AuthTrees ==
    {None, Some(Tree({CredKey}, "")), Some(Tree({CredKey, MetaKey}, "held"))}

MiscData == {None, Some(Tree({}, "")), Some(Tree({MetaKey}, "misc"))}

NoBody == [data |-> None, auth |-> None, misc_data |-> None]

\* a response that is no dict or reports an error carries no payload; a path
\* below auth can only carry wrap_info when auth is there
Bodies(result) ==
    IF result.kind # "dict" \/ result.error THEN {NoBody}
    ELSE {b \in [data : DataTrees, auth : AuthTrees, misc_data : MiscData] :
             result.wrapped # {} => b.auth # None}

\* what the backend hands out for the top-level wrap_info
NoPayload == [auth |-> None, data |-> None]

Payloads ==
    {[auth |-> Some(Tree({CredKey}, "")), data |-> None],
     [auth |-> None, data |-> Some(Tree({CredKey}, ""))],
     [auth |-> None, data |-> Some(Tree({CredKey, MetaKey}, "unwrapped"))]}

PayloadsFor(result) ==
    IF result.kind = "dict" /\ ~result.error /\ result.wrap_info
    THEN Payloads ELSE {NoPayload}

Truthy(tree) == tree # None /\ DOMAIN Val(tree) # {}

\* lines 490-494: the top-level unwrapped response replaces auth and data
\* where it has them; lines 483-489 set a listed path below auth
AfterUnwrap(result, body, payload) ==
    IF ~result.wrap_info THEN body
    ELSE [body EXCEPT !.auth = IF Truthy(payload.auth) THEN payload.auth ELSE @,
                      !.data = IF Truthy(payload.data) THEN payload.data ELSE @]

\* a faulty merge: misc_data overwrites what the sub-tree holds
MergeMiscDataOverwriting(body) ==
    LET misc == IF body.misc_data = None THEN Tree({}, "") ELSE Val(body.misc_data)
        tgt == IF body.data # None THEN "data" ELSE "auth"
        tree == IF body[tgt] = None THEN Tree({}, "") ELSE Val(body[tgt])
    IN  IF DOMAIN misc = {} THEN body
        ELSE [body EXCEPT ![tgt] =
                 Some([k \in DOMAIN tree \cup DOMAIN misc |->
                          IF k \in DOMAIN misc THEN misc[k] ELSE tree[k]])]

\* lines 499-509: each misc_data entry is set in data (or in auth when there
\* is no data) unless the key is set there already
MergeMiscData(body) ==
    LET misc == IF body.misc_data = None THEN Tree({}, "") ELSE Val(body.misc_data)
        tgt == IF body.data # None THEN "data" ELSE "auth"
        tree == IF body[tgt] = None THEN Tree({}, "") ELSE Val(body[tgt])
    IN  IF DOMAIN misc = {} THEN body
        ELSE [body EXCEPT ![tgt] =
                 Some([k \in DOMAIN tree \cup DOMAIN misc |->
                          IF k \in DOMAIN tree THEN tree[k] ELSE misc[k]])]

\* the top-level keys of the response dict
TopLevelKeys(result, body) ==
    (IF result.server # None THEN {"server"} ELSE {})
    \cup (IF result.expire_cache THEN {"expire_cache"} ELSE {})
    \cup (IF result.wrap_info THEN {"wrap_info"} ELSE {})
    \cup (IF result.wrap_info_nested # <<>> THEN {"wrap_info_nested"} ELSE {})
    \cup {k \in {"data", "auth", "misc_data"} : body[k] # None}

\* a faulty clean-up: misc_data is left in the response
TransportOnlyWrapInfo == {"wrap_info", "wrap_info_nested"}

\* lines 511-513: the keys popped before the response is returned
TransportOnly == {"wrap_info", "wrap_info_nested", "misc_data"}

\* lines 499-514: the response check_result returns when nothing was raised
ReturnedResult(result, body, payload) ==
    LET unwrapped == AfterUnwrap(result, body, payload)
        merged == MergeMiscData(unwrapped)
    IN  [keys |-> TopLevelKeys(result, merged) \ TransportOnly,
         data |-> merged.data, auth |-> merged.auth,
         before |-> [data |-> unwrapped.data, auth |-> unwrapped.auth]]

Checked(result, unwrap_client, vault, body, payload, out) ==
    [result |-> result, supplied |-> unwrap_client, vault |-> vault,
     body |-> body, payload |-> payload, out |-> out,
     returned |-> IF out.exc = NoExc
                  THEN Some(ReturnedResult(result, body, payload)) ELSE None]

\* check_result(result, unwrap_client, unwrap_expected_creation_path)
CheckResultCall ==
    /\ qm = None
    /\ \E result \in Responses, unwrap_client \in SuppliedClients, vault \in VaultModes :
        \E body \in Bodies(result), payload \in PayloadsFor(result) :
            qm' = Some(Checked(result, unwrap_client, vault, body, payload,
                               CheckResult(result, unwrap_client, opts, vault)))
    /\ UNCHANGED <<runtype, opts, force_arg, context, tokens, secrets, cfgcache, last, pc,
                   procs, controller>>

NextQM == CheckResultCall

SpecQM == InitQM /\ [][NextQM]_vars

----------------------------------------------------------------------------
(* get_authd_client in two processes that share the durable cache.  Each    *)
(* process has its own context and runs one call on the remote path with    *)
(* auth method token; a step is one cache operation or one request, and the *)
(* steps of the two calls interleave.  The controller may be reconfigured   *)
(* to report another server, and time passes.  The id of a token names the  *)
(* server whose backend issued it.                                          *)

Procs == {"a", "b"}

\* a call that has not started: its position and the locals of
\* get_authd_client and _build_authd_client
Idle ==
    [at |-> "config_cache.get", rebuilding |-> FALSE, retry |-> FALSE,
     config |-> None, embedded_token |-> None, unwrap_client |-> None,
     token |-> None, exc |-> NoExc, returned |-> None]

\* what the controller and the backend answer at this moment
RaceEnv ==
    [mode |-> "ok", url |-> controller, wrap |-> TRUE, vault |-> "ok",
     ttl |-> LongTtl, uses |-> 0, renewable |-> FALSE]

InitRace ==
    /\ runtype = "MINION_REMOTE"
    /\ opts = [method |-> "token", token |-> FALSE, role_id |-> TRUE,
               secret_id |-> FALSE, lifecycle |-> None, verify |-> "NOT_SET"]
    /\ force_arg = FALSE
    /\ context = [b \in Banks |-> None]
    /\ tokens = [b \in Banks |-> None]
    /\ secrets = [b \in Banks |-> None]
    /\ cfgcache = None
    /\ last = None
    /\ qm = None
    /\ pc = None
    /\ procs = [p \in Procs |-> Idle]
    /\ controller \in Urls

\* lines 56-60 and 85: a recoverable error of the first build sets retry,
\* any other error and every error of the rebuild leaves the call
Failed(proc, exc) ==
    IF ~proc.rebuilding /\ exc \in Recoverable
    THEN [proc EXCEPT !.retry = TRUE, !.at = "gate"]
    ELSE [proc EXCEPT !.exc = exc, !.at = "done"]

\* lines 203-206: config_cache.get()
ConfigCacheGet(p) ==
    /\ procs[p].at = "config_cache.get"
    /\ procs' = [procs EXCEPT ![p] =
                   IF cfgcache # None
                   THEN [@ EXCEPT !.config = cfgcache, !.embedded_token = None,
                                  !.unwrap_client = VaultClient(Val(cfgcache).server),
                                  !.at = "token_cache.get"]
                   ELSE [@ EXCEPT !.at = "get_config"]]
    /\ UNCHANGED <<runtype, opts, force_arg, context, tokens, secrets, cfgcache,
                   last, qm, pc, controller>>

\* lines 209-240: _query_master("get_config"), parse_config, pop the token
RequestConfig(p) ==
    /\ procs[p].at = "get_config"
    /\ LET q == CheckResult(MasterResponse("get_config", RaceEnv, opts.method),
                            None, opts, RaceEnv.vault)
           raw == [opts EXCEPT !.token = TRUE]
           server == ReportedServer([url |-> controller, verify |-> "None"], opts)
           popped == PopToken(Config(raw, server,
                                     DictToken(FreshLease(controller, RaceEnv))))
       IN  procs' = [procs EXCEPT ![p] =
                       IF q.exc # NoExc THEN Failed(@, q.exc)
                       ELSE [@ EXCEPT !.config = Some(popped.config),
                                      !.embedded_token = popped.embedded_token,
                                      !.unwrap_client = q.client,
                                      !.at = "config_cache.store"]]
    /\ UNCHANGED <<runtype, opts, force_arg, context, tokens, secrets, cfgcache,
                   last, qm, pc, controller>>

\* line 241: config_cache.store(config)
ConfigCacheStore(p) ==
    /\ procs[p].at = "config_cache.store"
    /\ cfgcache' = procs[p].config
    /\ procs' = [procs EXCEPT ![p].at = "token_cache.get"]
    /\ UNCHANGED <<runtype, opts, force_arg, context, tokens, secrets, last, qm,
                   pc, controller>>

\* lines 320-328: token_cache.get(10), else the embedded token when it is
\* valid for 10 seconds, else a request
TokenCacheGet(p) ==
    /\ procs[p].at = "token_cache.get"
    /\ LET g == CacheGet(tokens["remote"], CachedTokenMinTtl)
           embedded == procs[p].embedded_token
       IN  /\ tokens' = [tokens EXCEPT !["remote"] = g.slot]
           /\ procs' = [procs EXCEPT ![p] =
                 IF g.val # None
                 THEN [@ EXCEPT !.token = g.val, !.at = "gate"]
                 ELSE IF embedded # None
                         /\ LeaseValid(Val(Val(embedded).lease), CachedTokenMinTtl)
                 THEN [@ EXCEPT !.token = Val(embedded).lease,
                                !.at = "token_cache.store"]
                 ELSE [@ EXCEPT !.at = "generate_new_token"]]
    /\ UNCHANGED <<runtype, opts, force_arg, context, secrets, cfgcache, last, qm,
                   pc, controller>>

\* lines 330-342: _query_master("generate_new_token", unwrap_client=...)
RequestToken(p) ==
    /\ procs[p].at = "generate_new_token"
    /\ LET q == CheckResult(MasterResponse("generate_new_token", RaceEnv,
                                           opts.method),
                            procs[p].unwrap_client, opts, RaceEnv.vault)
       IN  procs' = [procs EXCEPT ![p] =
                       IF q.exc # NoExc THEN Failed(@, q.exc)
                       ELSE [@ EXCEPT !.token = Some(FreshLease(controller, RaceEnv)),
                                      !.at = "token_cache.store"]]
    /\ UNCHANGED <<runtype, opts, force_arg, context, tokens, secrets, cfgcache,
                   last, qm, pc, controller>>

\* lines 344-347: token_cache.store(token) unless the token is single-use
TokenCacheStore(p) ==
    /\ procs[p].at = "token_cache.store"
    /\ tokens' = IF Val(procs[p].token).num_uses # 1
                 THEN [tokens EXCEPT !["remote"] = procs[p].token] ELSE tokens
    /\ procs' = [procs EXCEPT ![p].at = "gate"]
    /\ UNCHANGED <<runtype, opts, force_arg, context, secrets, cfgcache, last, qm,
                   pc, controller>>

\* lines 78-82 after the first build, lines 86-97 after the rebuild, with the
\* client and configuration _build_authd_client made of the locals (lines
\* 179-185); a returned pair goes to the context of the process (lines
\* 99-105).  The tokens of this backend are not renewable, so lines 65-76
\* do nothing.
Gate(p) ==
    LET proc == procs[p]
        config == IF proc.config = None THEN NoConfig ELSE Val(proc.config)
        client == [auth |-> [method |-> "token", token |-> proc.token,
                             secret |-> NoSecret],
                   server |-> config.server]
        returned == [proc EXCEPT !.returned = Some(Handle(client, config)),
                                 !.at = "done"]
    IN  /\ proc.at = "gate"
        /\ procs' = [procs EXCEPT ![p] =
             IF ~proc.rebuilding
             THEN (IF NeedsRebuild(proc.retry, client, config)
                   THEN [proc EXCEPT !.at = "clear_cache"]
                   ELSE returned)
             ELSE IF ~FailsGate(client, config) THEN returned
             ELSE IF AfterFailedGate(config) = "warning" THEN returned
             ELSE [proc EXCEPT !.exc = AfterFailedGate(config), !.at = "done"]]
        /\ UNCHANGED <<runtype, opts, force_arg, context, tokens, secrets,
                       cfgcache, last, qm, pc, controller>>

\* line 84: vcache.clear_cache flushes the shared connection bank, then the
\* rebuild starts (line 85)
ClearSharedCache(p) ==
    /\ procs[p].at = "clear_cache"
    /\ cfgcache' = None
    /\ tokens' = [tokens EXCEPT !["remote"] = None]
    /\ secrets' = [secrets EXCEPT !["remote"] = None]
    /\ procs' = [procs EXCEPT ![p] =
                   [Idle EXCEPT !.rebuilding = TRUE]]
    /\ UNCHANGED <<runtype, opts, force_arg, context, last, qm, pc, controller>>

\* the controller is reconfigured to report another server
Reconfigure ==
    /\ \E p \in Procs : procs[p].at # "done"
    /\ controller' \in Urls \ {controller}
    /\ UNCHANGED <<runtype, opts, force_arg, context, tokens, secrets, cfgcache,
                   last, qm, pc, procs>>

\* time passes while the calls run
Elapse ==
    /\ \E p \in Procs : procs[p].at # "done"
    /\ tokens' = [b \in Banks |-> AgedSlot(tokens[b])]
    /\ procs' = [p \in Procs |->
                   [procs[p] EXCEPT
                       !.token = AgedSlot(@),
                       !.embedded_token =
                           IF @ = None THEN None
                           ELSE DictToken(Aged(Val(Val(@).lease)))]]
    /\ <<tokens', procs'>> # <<tokens, procs>>
    /\ UNCHANGED <<runtype, opts, force_arg, context, secrets, cfgcache, last, qm,
                   pc, controller>>

NextRace ==
    \/ \E p \in Procs :
          \/ ConfigCacheGet(p)
          \/ RequestConfig(p)
          \/ ConfigCacheStore(p)
          \/ TokenCacheGet(p)
          \/ RequestToken(p)
          \/ TokenCacheStore(p)
          \/ Gate(p)
          \/ ClearSharedCache(p)
    \/ Reconfigure
    \/ Elapse

SpecRace == InitRace /\ [][NextRace]_vars

----------------------------------------------------------------------------
(* parse_config on its own.  A configuration is a function from the paths   *)
(* of its leaves ("auth:method", "server:url", ...) to their values; a key  *)
(* is in the configuration when its path is in the domain.                  *)

\* lines 608-670
DefaultConfig ==
    [p \in {"auth:approle_mount", "auth:approle_name", "auth:method",
            "auth:secret_id", "auth:token_lifecycle:minimum_ttl",
            "auth:token_lifecycle:renew_increment", "cache:backend",
            "cache:config", "cache:kv_metadata", "cache:secret",
            "issue:allow_minion_override_params", "issue:type",
            "issue:approle:mount", "issue:approle:params:bind_secret_id",
            "issue:approle:params:secret_id_num_uses",
            "issue:approle:params:secret_id_ttl",
            "issue:approle:params:token_explicit_max_ttl",
            "issue:approle:params:token_num_uses", "issue:token:role_name",
            "issue:token:params:explicit_max_ttl", "issue:token:params:num_uses",
            "issue:wrap", "metadata:entity:minion-id",
            "metadata:secret:saltstack-jid", "metadata:secret:saltstack-minion",
            "metadata:secret:saltstack-user", "policies:assign",
            "policies:cache_time", "policies:refresh_pillar",
            "server:namespace", "server:verify"} |->
        CASE p = "auth:approle_mount" -> "approle"
          [] p = "auth:approle_name" -> "salt-master"
          [] p = "auth:method" -> "token"
          [] p = "auth:token_lifecycle:minimum_ttl" -> "10"
          [] p = "cache:backend" -> "session"
          [] p = "cache:config" -> "3600"
          [] p = "cache:kv_metadata" -> "connection"
          [] p = "cache:secret" -> "ttl"
          [] p = "issue:allow_minion_override_params" -> "False"
          [] p = "issue:type" -> "token"
          [] p = "issue:approle:mount" -> "salt-minions"
          [] p = "issue:approle:params:bind_secret_id" -> "True"
          [] p = "issue:approle:params:secret_id_num_uses" -> "1"
          [] p = "issue:approle:params:secret_id_ttl" -> "60"
          [] p = "issue:approle:params:token_explicit_max_ttl" -> "60"
          [] p = "issue:approle:params:token_num_uses" -> "10"
          [] p = "issue:token:params:num_uses" -> "1"
          [] p = "issue:wrap" -> "30s"
          [] p = "metadata:entity:minion-id" -> "{minion}"
          [] p = "metadata:secret:saltstack-jid" -> "{jid}"
          [] p = "metadata:secret:saltstack-minion" -> "{minion}"
          [] p = "metadata:secret:saltstack-user" -> "{user}"
          [] p = "policies:assign" -> "[saltstack/minions, saltstack/{minion}]"
          [] p = "policies:cache_time" -> "60"
          [] OTHER -> "None"]

\* the leaves of auth.token_lifecycle
LifecyclePaths ==
    {"auth:token_lifecycle:minimum_ttl", "auth:token_lifecycle:renew_increment"}

\* the value at path `from` is popped and assigned to every path of `tos`
Move(cfg, from, tos) ==
    IF from \notin DOMAIN cfg THEN cfg
    ELSE [p \in (DOMAIN cfg \ {from}) \cup tos |->
             IF p \in tos THEN cfg[from] ELSE cfg[p]]

\* lines 672-674: policies given as a list become policies.assign
PoliciesAsMapping(config) == Move(config, "policies", {"policies:assign"})

\* a faulty merge: the arguments are swapped, the defaults win
MergeDefaultsOver(default, config) ==
    [p \in DOMAIN default \cup DOMAIN config |->
        IF p \in DOMAIN default THEN default[p] ELSE config[p]]

\* a faulty merge: the default values are not filled in
MergeWithoutDefaults(default, config) ==
    [p \in DOMAIN default \cup DOMAIN config |->
        IF p \in DOMAIN config THEN config[p] ELSE "None"]

\* lines 675-680: salt.utils.dictupdate.merge(default_config, config),
\* mappings merged recursively, the configuration's leaves win
Merge(default, config) ==
    [p \in DOMAIN default \cup DOMAIN config |->
        IF p \in DOMAIN config THEN config[p] ELSE default[p]]

\* a faulty migration: auth.ttl and auth.uses reach issue.token.params only
MigrateLegacyTokenParamsOnly(merged) ==
    LET m1 == Move(merged, "auth:ttl", {"issue:token:params:explicit_max_ttl"})
        m2 == Move(m1, "auth:uses", {"issue:token:params:num_uses"})
        m3 == Move(m2, "namespace", {"server:namespace"})
        m4 == Move(m3, "url", {"server:url"})
        m5 == Move(m4, "verify", {"server:verify"})
        m6 == Move(m5, "role_name", {"issue:token:role_name"})
        m7 == Move(m6, "auth:token_backend", {"cache:backend"})
    IN  Move(m7, "auth:allow_minion_override",
             {"issue:allow_minion_override_params"})

\* lines 681-703, in the order of the code
MigrateLegacy(merged) ==
    LET m1 == Move(merged, "auth:ttl", {"issue:token:params:explicit_max_ttl",
                                        "issue_params:explicit_max_ttl"})
        m2 == Move(m1, "auth:uses", {"issue:token:params:num_uses",
                                     "issue_params:num_uses"})
        m3 == Move(m2, "namespace", {"server:namespace"})
        m4 == Move(m3, "url", {"server:url"})
        m5 == Move(m4, "verify", {"server:verify"})
        m6 == Move(m5, "role_name", {"issue:token:role_name"})
        m7 == Move(m6, "auth:token_backend", {"cache:backend"})
    IN  Move(m7, "auth:allow_minion_override",
             {"issue:allow_minion_override_params"})

\* a faulty override: the local verify is not applied
LocalOverridesLifecycleOnly(merged, local) ==
    IF local = None \/ DOMAIN Val(local) \cap LifecyclePaths = {} THEN merged
    ELSE [p \in (DOMAIN merged \ LifecyclePaths)
                \cup (DOMAIN Val(local) \cap LifecyclePaths) |->
             IF p \in LifecyclePaths THEN Val(local)[p] ELSE merged[p]]

\* lines 704-715: the local opts["vault"] wins for verify and for
\* auth.token_lifecycle, which is assigned as a whole
LocalOverrides(merged, local) ==
    LET l == Val(local)
        verified ==
            IF "verify" \in DOMAIN l
            THEN [p \in DOMAIN merged \cup {"server:verify"} |->
                     IF p = "server:verify" THEN l["verify"] ELSE merged[p]]
            ELSE IF "server:verify" \in DOMAIN l
            THEN [p \in DOMAIN merged \cup {"server:verify"} |->
                     IF p = "server:verify" THEN l["server:verify"] ELSE merged[p]]
            ELSE merged
    IN  IF local = None THEN merged
        ELSE IF DOMAIN l \cap LifecyclePaths = {} THEN verified
        ELSE [p \in (DOMAIN verified \ LifecyclePaths)
                    \cup (DOMAIN l \cap LifecyclePaths) |->
                 IF p \in LifecyclePaths THEN l[p] ELSE verified[p]]

\* a faulty validation: server.url is not required
ValidateWithoutUrl(merged) ==
    IF merged["auth:method"] = "approle"
    THEN (IF "auth:role_id" \notin DOMAIN merged
          THEN "auth:role_id is required for approle auth" ELSE "")
    ELSE IF merged["auth:method"] = "token"
    THEN (IF "auth:token" \notin DOMAIN merged
          THEN "auth:token is required for token auth" ELSE "")
    ELSE "not a valid auth method"

\* a faulty validation: the auth method is not looked at
ValidateUrlOnly(merged) ==
    IF "server:url" \notin DOMAIN merged THEN "server:url is required" ELSE ""

\* lines 720-732: the message of the first failed assertion, "" when all pass
Validate(merged) ==
    IF merged["auth:method"] = "approle" /\ "auth:role_id" \notin DOMAIN merged
    THEN "auth:role_id is required for approle auth"
    ELSE IF merged["auth:method"] = "token" /\ "auth:token" \notin DOMAIN merged
    THEN "auth:token is required for token auth"
    ELSE IF merged["auth:method"] \notin {"approle", "token"}
    THEN "not a valid auth method"
    ELSE IF "server:url" \notin DOMAIN merged THEN "server:url is required"
    ELSE ""

\* lines 717-737, with the merged configuration
Validated(merged, validate) ==
    IF validate /\ Validate(merged) # ""
    THEN [exc |-> "InvalidConfigError", msg |-> Validate(merged), cfg |-> None]
    ELSE [exc |-> NoExc, msg |-> "", cfg |-> Some(merged)]

\* parse_config(config, validate=validate, opts=opts); local is opts["vault"]
\* when opts is given and has it
ParseConfig(config, validate, local) ==
    Validated(LocalOverrides(
                  MigrateLegacy(Merge(DefaultConfig, PoliciesAsMapping(config))),
                  local),
              validate)

\* most keys a raw configuration sets
MaxRawKeys == 3

\* the keys a raw configuration of the model may set, legacy ones included
RawKeys ==
    {"auth:method", "auth:token", "auth:role_id",
     "auth:token_lifecycle:minimum_ttl", "auth:token_lifecycle:renew_increment",
     "auth:ttl", "auth:uses", "url", "verify", "namespace", "server:url",
     "server:verify", "role_name", "auth:token_backend",
     "auth:allow_minion_override", "policies", "issue_params:explicit_max_ttl"}

RawMethods == {"token", "approle", "wrapped_token", "ldap"}

RawValue(k) ==
    CASE k = "auth:token_lifecycle:minimum_ttl" -> "60"
      [] k = "auth:token_lifecycle:renew_increment" -> "1h"
      [] k = "auth:ttl" -> "300"
      [] k = "auth:uses" -> "5"
      [] k = "auth:allow_minion_override" -> "True"
      [] k = "policies" -> "[listed]"
      [] k = "issue_params:explicit_max_ttl" -> "600"
      [] k = "auth:token" -> "t1"
      [] k = "server:url" -> "https://x"
      [] OTHER -> "remote " \o k

RawConfigs ==
    {[k \in K |-> IF k = "auth:method" THEN m ELSE RawValue(k)] :
        K \in {K \in SUBSET RawKeys : Cardinality(K) <= MaxRawKeys},
        m \in RawMethods}

\* opts["vault"], as far as parse_config reads it: verify at the root or under
\* server, and a non-empty auth.token_lifecycle, whole or partial
LocalOverrideKeys == {"verify", "server:verify"} \cup LifecyclePaths

LocalValue(k) ==
    CASE k = "auth:token_lifecycle:minimum_ttl" -> "30"
      [] k = "auth:token_lifecycle:renew_increment" -> "False"
      [] OTHER -> "local " \o k

LocalVaults ==
    {None} \cup {Some([k \in K |-> LocalValue(k)]) : K \in SUBSET LocalOverrideKeys}

InitPC ==
    /\ runtype = "MINION_REMOTE"
    /\ opts \in {c \in LocalConfigs : c.method = "token" /\ c.token
                                      /\ c.lifecycle = None}
    /\ force_arg = FALSE
    /\ context = [b \in Banks |-> None]
    /\ tokens = [b \in Banks |-> None]
    /\ secrets = [b \in Banks |-> None]
    /\ cfgcache = None
    /\ last = None
    /\ qm = None
    /\ pc = None
    /\ procs = None
    /\ controller = "https://a"

\* the result of the call, and of parsing the result again
Parsed(config, validate, local, out) ==
    [config |-> config, validate |-> validate, local |-> local, out |-> out,
     again |-> IF out.exc = NoExc /\ ~validate /\ local = None
               THEN Some(ParseConfig(Val(out.cfg), FALSE, None)) ELSE None]

\* parse_config(config, validate, opts)
ParseConfigCall ==
    /\ pc = None
    /\ \E config \in RawConfigs, validate \in BOOLEAN, local \in LocalVaults :
        pc' = Some(Parsed(config, validate, local,
                          ParseConfig(config, validate, local)))
    /\ UNCHANGED <<runtype, opts, force_arg, context, tokens, secrets, cfgcache,
                   last, qm, procs, controller>>

NextPC == ParseConfigCall

SpecPC == InitPC /\ [][NextPC]_vars

----------------------------------------------------------------------------
(* Properties of get_authd_client, over the record of the last call *)

\* how many times the call did op
Count(o, op) == Cardinality({i \in DOMAIN o.ev : o.ev[i].op = op})

\* the positions in the call log at which the call did op
At(o, op) == {i \in DOMAIN o.ev : o.ev[i].op = op}

\* the lease can serve one more request: time left and a use left
Usable(l) ==
    /\ l.dur = 0 \/ l.left >= 0
    /\ l.num_uses = 0 \/ l.use_count < l.num_uses

\* the lease has less than min left of a limited lifetime
BelowMinimum(l, min) == l.dur # 0 /\ l.left < min

\* C1: a call that returns normally returns a client that is valid for one
\* more request: its token is usable, or (AppRole) a login can get one, with
\* a usable secret ID or none required; the client is the one the context
\* now holds.  A call
\* that raises returns nothing.
C1_ReturnedClientValid ==
    last # None =>
        LET o == Val(last)
        IN  IF o.exc = NoExc
            THEN /\ o.returned # None
                 /\ context[CacheBank(o.force_local)] = o.returned
                 /\ LET auth == Val(o.returned).client.auth
                    IN  \/ auth.token # None /\ Usable(Val(auth.token))
                        \/ /\ auth.method = "approle"
                           /\ \/ auth.secret.kind \in {"none", "local"}
                              \/ /\ auth.secret.kind = "lease"
                                 /\ Usable(Val(auth.secret.lease))
            ELSE o.returned = None

\* C1 witness: a handle was held, its token failed the gate, and the call
\* returned the client it rebuilt
C1_Witness ==
    /\ last # None
    /\ Val(last).held
    /\ Val(last).gate1 = "fail"
    /\ Val(last).exc = NoExc
    /\ Val(last).returned # None

\* C2: each recoverable error of the first build is turned into the retry
\* flag: exactly one purge, exactly two builds; what the second build raises
\* is what the call raises.  No call builds more than twice or purges more
\* than once.
C2_RecoverableCaughtOnce ==
    last # None =>
        LET o == Val(last)
        IN  /\ Count(o, "build") <= 2
            /\ Count(o, "clear_cache") <= 1
            /\ o.build1 \in {"VaultAuthExpired", "VaultConfigExpired",
                             "VaultPermissionDeniedError"} =>
                /\ o.retry
                /\ Count(o, "clear_cache") = 1
                /\ Count(o, "build") = 2
                /\ o.build2 # "skipped"
                /\ o.build2 # NoExc => o.exc = o.build2 /\ o.returned = None

\* C2 witness: the second build raised the same recoverable error as the
\* first one, and the call raised it
C2_Witness ==
    /\ last # None
    /\ Val(last).build1 = "VaultPermissionDeniedError"
    /\ Val(last).build2 = "VaultPermissionDeniedError"
    /\ Val(last).exc = "VaultPermissionDeniedError"

\* C3: no store of factory.py on a credential cache is of a credential whose
\* num_uses is 1
C3_NoSingleUseStored ==
    last # None =>
        \A i \in DOMAIN Val(last).ev :
            Val(last).ev[i].op \in {"store_token", "store_secret_id"}
                => Val(last).ev[i].n # 1

C7_PurgeAndRebuildExactlyWhen ==
    last # None =>
        LET o == Val(last)
            purged == Count(o, "clear_cache") >= 1
            fails == /\ o.gated # None
                     /\ ~AuthValid(Val(o.gated).client.auth,
                                   Val(o.gated).config.token_lifecycle.minimum_ttl)
        IN  /\ purged <=> (o.retry \/ fails)
            /\ purged =>
                /\ Count(o, "clear_cache") = 1
                /\ o.build2 # "skipped"
                /\ \A i \in At(o, "clear_cache") :
                       Cardinality({j \in At(o, "build") : j > i}) = 1
            /\ ~purged => o.build2 = "skipped" /\ Count(o, "build") <= 1

\* C7 witness: no retry flag, the first build's token failed the gate, the
\* caches were purged and the client rebuilt
C7_Witness ==
    /\ last # None
    /\ ~Val(last).retry
    /\ Val(last).build1 = NoExc
    /\ Val(last).gate1 = "fail"
    /\ Count(Val(last), "clear_cache") = 1
    /\ Val(last).build2 = NoExc

C9_RenewOnlyWhenDue ==
    last # None =>
        LET o == Val(last)
        IN  /\ Count(o, "token_renew") <= 1
            /\ Count(o, "token_renew") = 1 =>
                /\ ~o.retry
                /\ o.live # None
                /\ Val(o.live).renewable
                /\ BelowMinimum(Val(o.live), Val(o.lifecycle).minimum_ttl)
                /\ \A i \in At(o, "token_renew") :
                       o.ev[i].arg = Val(o.lifecycle).renew_increment

\* C9 witness: a renewal with the configured increment
C9_Witness ==
    /\ last # None
    /\ Count(Val(last), "token_renew") = 1
    /\ Val(Val(last).lifecycle).renew_increment = "20s"
    /\ Val(last).renewed

\* C10: a held handle whose token passed token_valid() and meets the minimum
\* TTL is returned as it is: no build, no request to the controller, no purge,
\* no store
C10_HeldHandleReturnedUntouched ==
    last # None =>
        LET o == Val(last)
        IN  (/\ o.pre # None
             /\ o.held
             /\ Val(o.pre).client.auth.token # None
             /\ LeaseValid(Val(Val(o.pre).client.auth.token),
                           Val(o.pre).config.token_lifecycle.minimum_ttl))
            => /\ o.exc = NoExc
               /\ o.returned # None
               /\ Val(o.returned).config = Val(o.pre).config
               /\ \A i \in DOMAIN o.ev :
                      o.ev[i].op \notin {"build", "query", "clear_cache",
                                         "store_token", "store_secret_id",
                                         "store_config"}

----------------------------------------------------------------------------
(* Properties of check_result, over the record of the checked response *)

\* the response's server block after re-resolution
Reported(q) ==
    IF q.result.server = None THEN None
    ELSE Some([Val(q.result.server) EXCEPT
                 !.verify = IF opts.verify # "NOT_SET" THEN opts.verify ELSE @])

\* a dict without an error key
Answered(q) == q.result.kind = "dict" /\ ~q.result.error

\* the caller supplied a client and the response reports another server
Mismatch(q) == q.supplied # None /\ Reported(q) # Some(Val(q.supplied).server)

Unwrapped(q) == {q.out.unwraps[i].key : i \in DOMAIN q.out.unwraps}

\* C4: on a mismatch no unwrap goes through the supplied client: each one
\* goes through a client made from the response's server block, without an
\* expected creation path, and the supplied client is not handed back
C4_MismatchDiscardsClient ==
    qm # None =>
        LET q == Val(qm)
        IN  (Answered(q) /\ Mismatch(q)) =>
                /\ q.out.client # q.supplied
                /\ \A i \in DOMAIN q.out.unwraps :
                    /\ q.out.unwraps[i].via = "derived"
                    /\ Some(q.out.unwraps[i].server) = Reported(q)
                    /\ ~q.out.unwraps[i].expected_creation_path

\* C4 witness: a mismatching response with a wrapped top level and a wrapped
\* nested path, both unwrapped
C4_Witness ==
    /\ qm # None
    /\ Answered(Val(qm))
    /\ Mismatch(Val(qm))
    /\ Len(Val(qm).out.unwraps) >= 2

----------------------------------------------------------------------------
(* Further properties of get_authd_client and check_result *)

\* C11: after a call that returned normally, the context entry of the bank
\* derived from (opts, force_local) is the returned (client, config) pair,
\* and a call that found a handle found the one the context held
C11_ContextHoldsReturned ==
    last # None =>
        LET o == Val(last)
            cbank == IF runtype \in {"MASTER", "MINION_LOCAL"} \/ o.force_local
                     THEN "local" ELSE "remote"
        IN  o.exc = NoExc =>
                /\ o.returned # None
                /\ context[cbank] = o.returned
                /\ \A b \in Banks \ {cbank} : context[b] = None

\* C11 witness: a held handle was replaced by a rebuilt one, which the
\* context now holds
C11_Witness ==
    /\ last # None
    /\ Val(last).exc = NoExc
    /\ Val(last).pre # None
    /\ Val(last).rebuilt # None
    /\ Val(last).returned # Val(last).pre
    /\ context[CacheBank(Val(last).force_local)] = Val(last).returned

\* C12: a mapping with an error key raises VaultConfigExpired when it also
\* carries a truthy expire_cache and CommandExecutionError otherwise; a
\* non-empty result that is no mapping raises CommandExecutionError; nothing
\* is unwrapped in either case
C12_ErrorResponses ==
    qm # None =>
        LET q == Val(qm)
        IN  /\ (q.result.kind = "dict" /\ q.result.error) =>
                /\ q.out.exc = IF q.result.expire_cache THEN "VaultConfigExpired"
                               ELSE "CommandExecutionError"
                /\ q.out.unwraps = <<>>
            /\ q.result.kind = "nondict" =>
                q.out.exc = "CommandExecutionError" /\ q.out.unwraps = <<>>

\* C12 witness: {"error": ..., "expire_cache": true} raised VaultConfigExpired
C12_Witness ==
    /\ qm # None
    /\ Val(qm).result.kind = "dict"
    /\ Val(qm).result.error
    /\ Val(qm).result.expire_cache
    /\ Val(qm).out.exc = "VaultConfigExpired"

\* C13: an empty result raises VaultConfigExpired, whatever client was
\* supplied, and nothing is unwrapped
C13_EmptyResult ==
    (qm # None /\ Val(qm).result.kind = "empty") =>
            /\ Val(qm).out.exc = "VaultConfigExpired"
            /\ Val(qm).out.exc \in Recoverable
            /\ Val(qm).out.unwraps = <<>>

\* C13 witness: an empty result, checked with a client supplied
C13_Witness ==
    /\ qm # None
    /\ Val(qm).result.kind = "empty"
    /\ Val(qm).supplied # None
    /\ Val(qm).out.exc = "VaultConfigExpired"

\* C20: a call in a master or local-minion run type, or with force_local,
\* sends no request to the controller and unwraps nothing it sent
C20_LocalNeverAsksController ==
    last # None =>
        LET o == Val(last)
        IN  (runtype \in {"MASTER", "MINION_LOCAL"} \/ o.force_local) =>
                Count(o, "query") = 0

\* C20 witness: a remote minion called with force_local built its client from
\* the local configuration
C20_Witness ==
    /\ last # None
    /\ runtype = "MINION_REMOTE"
    /\ Val(last).force_local
    /\ Val(last).exc = NoExc
    /\ Count(Val(last), "build") >= 1
    /\ Count(Val(last), "query") = 0

----------------------------------------------------------------------------
(* Properties of parse_config, over the record of the parsed configuration *)

\* the auth method of the merged configuration
MethodOf(config) ==
    IF "auth:method" \in DOMAIN config THEN config["auth:method"] ELSE "token"

\* C14: a resolved configuration has a value for every key of the default
\* tree, auth.token_lifecycle.minimum_ttl and .renew_increment among them
C14_EveryKeyResolved ==
    (pc # None /\ Val(pc).out.exc = NoExc) =>
        /\ DOMAIN DefaultConfig \subseteq DOMAIN Val(Val(pc).out.cfg)
        /\ LifecyclePaths \subseteq DOMAIN Val(Val(pc).out.cfg)

\* C15: what the local opts["vault"] sets for verify (at the root, else under
\* server) is the resulting server.verify, and a token_lifecycle it sets is
\* the resulting auth.token_lifecycle, key for key, whatever the remote
\* configuration supplies, legacy root-level keys included
C15_LocalOverridesWin ==
    (pc # None /\ Val(pc).out.exc = NoExc /\ Val(pc).local # None) =>
        LET l == Val(Val(pc).local)
            cfg == Val(Val(pc).out.cfg)
        IN  /\ "verify" \in DOMAIN l => cfg["server:verify"] = l["verify"]
            /\ ("verify" \notin DOMAIN l /\ "server:verify" \in DOMAIN l)
                  => cfg["server:verify"] = l["server:verify"]
            /\ DOMAIN l \cap LifecyclePaths # {} =>
                /\ DOMAIN cfg \cap LifecyclePaths = DOMAIN l \cap LifecyclePaths
                /\ \A p \in DOMAIN l \cap LifecyclePaths : cfg[p] = l[p]

\* C15 witness: the remote configuration supplies verify through the legacy
\* root-level key and a token_lifecycle; the local values are the result
C15_Witness ==
    /\ pc # None
    /\ Val(pc).out.exc = NoExc
    /\ Val(pc).local # None
    /\ "verify" \in DOMAIN Val(pc).config
    /\ "auth:token_lifecycle:minimum_ttl" \in DOMAIN Val(pc).config
    /\ "server:verify" \in DOMAIN Val(Val(pc).local)
    /\ "verify" \notin DOMAIN Val(Val(pc).local)
    /\ LifecyclePaths \subseteq DOMAIN Val(Val(pc).local)
    /\ Val(Val(pc).out.cfg)["server:verify"] = "local server:verify"
    /\ Val(Val(pc).out.cfg)["auth:token_lifecycle:minimum_ttl"] = "30"

\* C16: a configuration without server.url and without a root-level url does
\* not pass the validation, whatever else it holds
C16_UrlRequired ==
    (/\ pc # None
     /\ Val(pc).validate
     /\ "server:url" \notin DOMAIN Val(pc).config
     /\ "url" \notin DOMAIN Val(pc).config)
    => Val(pc).out.exc = "InvalidConfigError" /\ Val(pc).out.cfg = None

\* C16 witness: an approle configuration with a role_id, rejected only for
\* its missing server.url
C16_Witness ==
    /\ pc # None
    /\ Val(pc).validate
    /\ MethodOf(Val(pc).config) = "approle"
    /\ "auth:role_id" \in DOMAIN Val(pc).config
    /\ "server:url" \notin DOMAIN Val(pc).config
    /\ "url" \notin DOMAIN Val(pc).config
    /\ Val(pc).out.exc = "InvalidConfigError"
    /\ Val(pc).out.msg = "server:url is required"

\* C17: with validate, a method outside token, approle and wrapped_token, an
\* approle without role_id and a token method without token are rejected;
\* without validate nothing is rejected and the merged configuration returned
C17_MethodValidated ==
    pc # None =>
        LET config == Val(pc).config
            m == MethodOf(config)
        IN  IF Val(pc).validate
            THEN (\/ m \notin {"token", "approle", "wrapped_token"}
                  \/ m = "approle" /\ "auth:role_id" \notin DOMAIN config
                  \/ m = "token" /\ "auth:token" \notin DOMAIN config)
                 => Val(pc).out.exc = "InvalidConfigError"
            ELSE /\ Val(pc).out.exc = NoExc
                 /\ Val(pc).out.cfg # None
                 /\ Val(Val(pc).out.cfg)["auth:method"] = m

\* C17 witness: an unknown method with a server.url is rejected
C17_Witness ==
    /\ pc # None
    /\ Val(pc).validate
    /\ MethodOf(Val(pc).config) = "ldap"
    /\ "server:url" \in DOMAIN Val(pc).config
    /\ Val(pc).out.exc = "InvalidConfigError"
    /\ Val(pc).out.msg = "not a valid auth method"

\* C18: parsing a parsed configuration again (validate=False) gives the same
\* configuration: the migration of legacy keys is idempotent
C18_MigrationIdempotent ==
    (pc # None /\ Val(pc).again # None) =>
        /\ Val(Val(pc).again).exc = NoExc
        /\ Val(Val(pc).again).cfg = Val(pc).out.cfg

\* C18 witness: a configuration with the legacy keys auth.ttl and root-level
\* verify and a policies list: migrated once, unchanged by the second pass
C18_Witness ==
    /\ pc # None
    /\ Val(pc).again # None
    /\ {"auth:ttl", "verify", "policies"} \subseteq DOMAIN Val(pc).config
    /\ Val(Val(pc).out.cfg)["issue_params:explicit_max_ttl"] = "300"
    /\ Val(Val(pc).out.cfg)["server:verify"] = "remote verify"
    /\ Val(Val(pc).out.cfg)["policies:assign"] = "[listed]"
    /\ "auth:ttl" \notin DOMAIN Val(Val(pc).out.cfg)
    /\ Val(Val(pc).again).cfg = Val(pc).out.cfg

\* C19: with auth.method = wrapped_token in the local configuration, a call
\* that has to build its client obtains the token by an unwrap through the
\* unauthenticated client, and a client it returns carries the unwrapped token
C19_WrappedTokenUnwrapped ==
    last # None =>
        LET o == Val(last)
        IN  (/\ opts.method = "wrapped_token"
             /\ runtype \in {"MASTER", "MINION_LOCAL"} \/ o.force_local
             /\ o.pre = None)
            => /\ Count(o, "unwrap") >= 1
               /\ o.exc # "InvalidConfigError"
               /\ o.returned # None =>
                    /\ Val(o.returned).client.auth.token # None
                    /\ Val(Val(o.returned).client.auth.token).id = "unwrapped"

----------------------------------------------------------------------------
(* Properties of the response _query_master returns *)

\* the sub-tree misc_data is merged into: data when it is there, else auth
Target(trees) == IF trees.data # None THEN "data" ELSE "auth"

Held(tree) == IF tree = None THEN Tree({}, "") ELSE Val(tree)

\* C21: in every response _query_master returns, each misc_data key that the
\* target sub-tree (data when present, otherwise auth) already held keeps its
\* value, each misc_data key that was not set there holds the misc_data
\* value, and the other sub-tree is left as it was.
C21_MiscDataNeverOverwrites ==
    (qm # None /\ Val(qm).returned # None /\ Val(qm).body.misc_data # None) =>
        LET q == Val(qm)
            ret == Val(q.returned)
            misc == Val(q.body.misc_data)
            tgt == Target(ret.before)
            other == IF tgt = "data" THEN "auth" ELSE "data"
            was == Held(ret.before[tgt])
            now == Held(ret[tgt])
        IN  /\ \A k \in DOMAIN misc :
                /\ k \in DOMAIN now
                /\ now[k] = IF k \in DOMAIN was THEN was[k] ELSE misc[k]
            /\ \A k \in DOMAIN was : k \in DOMAIN now /\ now[k] = was[k]
            /\ DOMAIN now = DOMAIN was \cup DOMAIN misc
            /\ ret[other] = ret.before[other]

\* a returned response whose data already held the key misc_data carries,
\* with another value
C21_Witness ==
    /\ qm # None /\ Val(qm).returned # None
    /\ Val(qm).body.misc_data = Some(Tree({MetaKey}, "misc"))
    /\ Val(qm).body.data = Some(Tree({CredKey, MetaKey}, "held"))
    /\ ~Val(qm).result.wrap_info
    /\ Val(Val(Val(qm).returned).data)[MetaKey] = "held"

\* C22: a response that _query_master returns has none of the keys
\* wrap_info, wrap_info_nested and misc_data at its top level, whatever the
\* controller sent.
C22_TransportKeysStripped ==
    (qm # None /\ Val(qm).returned # None) =>
        Val(Val(qm).returned).keys
            \cap {"wrap_info", "wrap_info_nested", "misc_data"} = {}

\* a returned response for which the controller sent all three keys
C22_Witness ==
    /\ qm # None /\ Val(qm).returned # None
    /\ Val(qm).result.wrap_info
    /\ Val(qm).result.wrap_info_nested # <<>>
    /\ Val(qm).body.misc_data # None
    /\ "server" \in Val(Val(qm).returned).keys

----------------------------------------------------------------------------
(* Properties of the connection configuration *)

\* C23: the configuration in the config cache, the configuration kept in the
\* context and the configuration a call hands back never hold the embedded
\* token (auth.token), in local and in remote mode; the token is found in
\* the token cache only.
C23_TokenApartFromConfig ==
    /\ cfgcache # None => Val(cfgcache).token = None
    /\ \A b \in Banks :
          context[b] # None => Val(context[b]).config.token = None
    /\ (last # None /\ Val(last).returned # None) =>
          Val(Val(last).returned).config.token = None

\* a remote call whose controller embedded a token in the configuration: the
\* configuration was cached and the token went to the token cache
C23_Witness ==
    /\ last # None /\ Val(last).returned # None
    /\ ~IsLocal(Val(last).force_local)
    /\ Count(Val(last), "store_config") = 1
    /\ cfgcache # None
    /\ Val(cfgcache).method = "token"
    /\ tokens["remote"] # None
    /\ Val(tokens["remote"]).id = "embedded"
    /\ Val(Val(last).returned).client.auth.token = tokens["remote"]

----------------------------------------------------------------------------
(* Properties of concurrent calls *)

\* C24: when two processes share the durable cache and their cache
\* operations interleave, a call that returns hands back a client that
\* passed the validity gate and that was built from one consistent cache
\* state: its token was issued by the server of its configuration.
C24_RaceOnlyRebuilds ==
    \A p \in Procs :
        (procs # None /\ procs[p].at = "done" /\ procs[p].returned # None) =>
            LET h == Val(procs[p].returned)
            IN  /\ h.client.auth.token # None
                /\ Val(h.client.auth.token).id = h.config.server.url

----------------------------------------------------------------------------
(* Properties of the credentials a build obtains *)

\* C25: on the remote path _fetch_token hands out a cached token or a token
\* the controller embedded only when it has at least 10 seconds left; when
\* the token cache, read with a minimum of 10 seconds, yields nothing, the
\* next thing that happens is a generate_new_token request, unless a valid
\* embedded token is at hand.
C25_NoShortLivedCachedToken ==
    (last # None /\ opts.method = "token") =>
        LET o == Val(last)
        IN  /\ \A i \in At(o, "fetch_token") :
                  o.ev[i].arg \in {"cached", "embedded"} => o.ev[i].n >= 10
            /\ \A i \in At(o, "token_cache.get") :
                  /\ o.ev[i].arg = "hit" =>
                        /\ o.ev[i].n >= 10
                        /\ o.ev[i + 1] = Event("fetch_token", "cached", o.ev[i].n)
                  /\ o.ev[i].arg # "hit" =>
                        \/ o.ev[i + 1] = Event("query", "generate_new_token", 0)
                        \/ \E j \in At(o, "fetch_token") :
                              /\ j \in {i + 1, i + 2}
                              /\ o.ev[j].arg = "embedded"

\* the token cache held a token with less than 10 seconds left: it was not
\* handed out, a new token was requested and returned
C25_Witness ==
    /\ last # None /\ opts.method = "token" /\ Val(last).returned # None
    /\ \E i \in At(Val(last), "token_cache.get") :
          /\ Val(last).ev[i].arg = "stale"
          /\ Val(last).ev[i].n \in 0..9
          /\ Val(last).ev[i + 1] = Event("query", "generate_new_token", 0)
    /\ \E i \in At(Val(last), "fetch_token") : Val(last).ev[i].arg = "issued"

----------------------------------------------------------------------------
(* A configuration resolved with the defaults *)

\* C26: parse_config of {auth: {method: "token", token: "t1"},
\* server: {url: "https://x"}} with validate=True and no local overrides
\* succeeds; the result has cache.backend "session" and
\* auth.token_lifecycle.minimum_ttl 10 and keeps auth.token and server.url.
C26_ScenarioResolved ==
    (/\ pc # None
     /\ Val(pc).config = [k \in {"auth:method", "auth:token", "server:url"} |->
                             CASE k = "auth:method" -> "token"
                               [] k = "auth:token" -> "t1"
                               [] OTHER -> "https://x"]
     /\ Val(pc).validate
     /\ Val(pc).local = None)
    => /\ Val(pc).out.exc = NoExc
       /\ Val(pc).out.cfg # None
       /\ LET cfg == Val(Val(pc).out.cfg)
          IN  /\ {"cache:backend", "auth:token_lifecycle:minimum_ttl",
                  "auth:method", "auth:token", "server:url"} \subseteq DOMAIN cfg
              /\ cfg["cache:backend"] = "session"
              /\ cfg["auth:token_lifecycle:minimum_ttl"] = "10"
              /\ cfg["auth:method"] = "token"
              /\ cfg["auth:token"] = "t1"
              /\ cfg["server:url"] = "https://x"

\* the configuration of the scenario was parsed with validation and without
\* local overrides, and a configuration came back
C26_Witness ==
    /\ pc # None
    /\ DOMAIN Val(pc).config = {"auth:method", "auth:token", "server:url"}
    /\ Val(pc).config["auth:method"] = "token"
    /\ Val(pc).config["auth:token"] = "t1"
    /\ Val(pc).config["server:url"] = "https://x"
    /\ Val(pc).validate
    /\ Val(pc).local = None
    /\ Val(pc).out.cfg # None

----------------------------------------------------------------------------
(* The fallback for controllers that do not publish get_config *)

\* the first entry of the call log after position i that is no unwrap call;
\* 0 when there is none
NextAfter(o, i) ==
    LET later == {j \in DOMAIN o.ev : j > i /\ o.ev[j].op # "unwrap"}
    IN  IF later = {} THEN 0
        ELSE CHOOSE j \in later : \A k \in later : j <= k

EmptyReturn == Event("raise", "VaultConfigExpired: Peer runner return was empty", 0)

\* C27: when the get_config request raises VaultConfigExpired for an empty
\* peer return, one generate_token request follows it, and its answer, when
\* it is one, is stored as the configuration; when get_config raises any
\* other VaultConfigExpired, no request follows and nothing is stored in the
\* config cache; generate_token is requested in no other situation.
C27_FallbackOnlyOnEmptyReturn ==
    last # None =>
        LET o == Val(last)
            asked(func) == {i \in At(o, "query") : o.ev[i].arg = func}
        IN  /\ \A i \in asked("get_config") :
                  LET j == NextAfter(o, i)
                      k == NextAfter(o, j)
                  IN  /\ (j # 0 /\ o.ev[j] = EmptyReturn) =>
                            /\ k # 0
                            /\ o.ev[k] = Event("query", "generate_token", 0)
                            /\ NextAfter(o, k) # 0 =>
                                  o.ev[NextAfter(o, k)].op \in {"store_config", "raise"}
                            /\ NextAfter(o, k) = 0 => o.exc = "InvalidConfigError"
                      /\ (j # 0 /\ o.ev[j] = Event("raise", "VaultConfigExpired", 0)) =>
                            /\ k # 0 => o.ev[k].op = "clear_cache"
                            /\ k = 0 => cfgcache = None
            /\ \A k \in asked("generate_token") :
                  /\ k >= 3
                  /\ o.ev[k - 1] = EmptyReturn
                  /\ o.ev[k - 2] = Event("query", "get_config", 0)

\* a controller that only publishes generate_token: the get_config request
\* came back empty, the fallback request was made once and its answer was
\* stored as the configuration of the returned client
C27_Witness ==
    /\ last # None /\ Val(last).returned # None
    /\ Count(Val(last), "store_config") = 1
    /\ \E k \in At(Val(last), "query") :
          /\ Val(last).ev[k] = Event("query", "generate_token", 0)
          /\ Val(last).ev[k - 1] = EmptyReturn
          /\ NextAfter(Val(last), k) # 0
          /\ Val(last).ev[NextAfter(Val(last), k)].op = "store_config"
    /\ Cardinality({k \in At(Val(last), "query") :
                       Val(last).ev[k].arg = "generate_token"}) = 1
    /\ cfgcache = Some(Val(Val(last).returned).config)

----------------------------------------------------------------------------
(* Secret IDs of an AppRole *)

\* C28: with auth method approle and a secret ID configured, a secret ID is
\* fetched only right after the token cache, read with a minimum of 10
\* seconds, and the secret-ID cache both yielded nothing; a
\* generate_secret_id request is sent only inside such a fetch; and after
\* the token cache yielded a token, nothing is fetched in that build.
C28_SecretIdOnlyWithoutToken ==
    (last # None /\ opts.method = "approle" /\ opts.secret_id) =>
        LET o == Val(last)
        IN  /\ \A i \in At(o, "fetch_secret_id") :
                  /\ i >= 3
                  /\ o.ev[i - 1].op = "secret_id_cache.get"
                  /\ o.ev[i - 1].arg # "hit"
                  /\ o.ev[i - 2].op = "token_cache.get"
                  /\ o.ev[i - 2].arg # "hit"
            /\ \A j \in At(o, "query") :
                  o.ev[j].arg = "generate_secret_id" =>
                      /\ j >= 3
                      /\ o.ev[j - 1].op = "secret_id_cache.get"
                      /\ o.ev[j - 1].arg # "hit"
                      /\ o.ev[j - 2].op = "fetch_secret_id"
            /\ \A i \in At(o, "token_cache.get") :
                  o.ev[i].arg = "hit" =>
                      /\ o.ev[i].n >= 10
                      /\ \A j \in DOMAIN o.ev :
                            (j > i /\ \A k \in i..j : o.ev[k].op # "build") =>
                                /\ o.ev[j].op # "fetch_secret_id"
                                /\ o.ev[j] # Event("query", "generate_secret_id", 0)

\* a build found a valid cached token and no cached secret ID, and went on
\* without fetching one
C28_Witness ==
    /\ last # None /\ opts.method = "approle" /\ opts.secret_id
    /\ Val(last).returned # None
    /\ Count(Val(last), "fetch_secret_id") = 0
    /\ \E i \in At(Val(last), "token_cache.get") :
          /\ Val(last).ev[i].arg = "hit"
          /\ Val(last).ev[i + 1].op = "secret_id_cache.get"
          /\ Val(last).ev[i + 1].arg # "hit"

----------------------------------------------------------------------------
(* The comparison of the reported with the cached server *)

\* C29: with server.verify forced in the local configuration, and a caller's
\* client whose configuration was resolved with it, a response that reports
\* the url of that client is no mismatch, whatever verify it reports: the
\* caller's client is kept and VaultConfigExpired is raised only when the
\* response asks for it with expire_cache.
C29_LocalVerifyNoMismatch ==
    (/\ qm # None
     /\ opts.verify # "NOT_SET"
     /\ Val(qm).result.kind = "dict" /\ ~Val(qm).result.error
     /\ Val(qm).result.server # None
     /\ Val(qm).supplied # None
     /\ Val(Val(qm).supplied).server.verify = opts.verify
     /\ Val(Val(qm).supplied).server.url = Val(Val(qm).result.server).url)
    => /\ ~Val(qm).out.mismatch
       /\ Val(qm).out.client = Val(qm).supplied
       /\ Val(qm).out.exc = "VaultConfigExpired" => Val(qm).result.expire_cache
       /\ \A i \in DOMAIN Val(qm).out.unwraps :
             Val(qm).out.unwraps[i].via = "supplied"

\* the controller reported another verify value than the one forced locally,
\* and the response was accepted
C29_Witness ==
    /\ qm # None
    /\ opts.verify = "True"
    /\ Val(qm).supplied # None
    /\ Val(Val(qm).supplied).server.verify = "True"
    /\ Val(qm).result.server # None
    /\ Val(Val(qm).result.server).verify = "None"
    /\ Val(Val(qm).result.server).url = Val(Val(qm).supplied).server.url
    /\ Val(qm).result.wrap_info
    /\ ~Val(qm).out.mismatch
    /\ Val(qm).out.exc = NoExc
    /\ Val(qm).returned # None

----------------------------------------------------------------------------
(* Responses that ask for cache expiration *)

\* C30: a response without error key and with a truthy expire_cache is never
\* returned: check_result raises, and it raises VaultConfigExpired unless
\* the unwrapping itself failed (the backend refused it, or the response
\* carries no server block to build an unwrap client from).
C30_ExpireCacheNeverReturned ==
    (/\ qm # None
     /\ Val(qm).result.kind = "dict" /\ ~Val(qm).result.error
     /\ Val(qm).result.expire_cache)
    => LET q == Val(qm)
           needs_unwrap == q.result.wrap_info \/ q.result.wrap_info_nested # <<>>
       IN  /\ q.returned = None
           /\ q.out.exc # NoExc
           /\ q.out.exc # "VaultConfigExpired" =>
                 /\ needs_unwrap
                 /\ \/ q.vault # "ok" /\ q.out.exc = "VaultPermissionDeniedError"
                    \/ q.result.server = None /\ q.out.exc = "KeyError"
           /\ (q.vault = "ok" /\ q.out.exc = "VaultConfigExpired") =>
                 Len(q.out.unwraps) = Len(WrappedKeys(q.result))

\* a response that reports the server of the caller's client, carries a
\* wrapped payload and asks for expiration: the payload was unwrapped with
\* the caller's client, then VaultConfigExpired was raised
C30_Witness ==
    /\ qm # None
    /\ Val(qm).result.kind = "dict" /\ ~Val(qm).result.error
    /\ Val(qm).result.expire_cache
    /\ Val(qm).result.wrap_info
    /\ Val(qm).body.data # None
    /\ ~Val(qm).out.mismatch
    /\ Val(qm).supplied # None
    /\ Len(Val(qm).out.unwraps) >= 1
    /\ Val(qm).out.exc = "VaultConfigExpired"
    /\ Val(qm).returned = None

----------------------------------------------------------------------------
(* The work one call can do *)

\* C31: a get_authd_client call builds at most twice, purges at most once
\* and renews at most once; a second build happens only after the purge, a
\* renewal only before it; the call ends by returning a client or by raising.
C31_BoundedWork ==
    last # None =>
        LET o == Val(last)
        IN  /\ Count(o, "build") <= 2
            /\ Count(o, "clear_cache") <= 1
            /\ Count(o, "token_renew") <= 1
            /\ Count(o, "build") = 2 => Count(o, "clear_cache") = 1
            /\ \A i \in At(o, "clear_cache") :
                  /\ Cardinality({j \in At(o, "build") : j > i}) = 1
                  /\ \A j \in At(o, "token_renew") : j < i
            /\ (o.exc = NoExc) # (o.returned = None)

\* a call that built, renewed the token, found it still below the minimum,
\* purged, built again and returned
C31_Witness ==
    /\ last # None
    /\ Count(Val(last), "build") = 2
    /\ Count(Val(last), "clear_cache") = 1
    /\ Count(Val(last), "token_renew") = 1
    /\ Val(last).exc = NoExc
    /\ Val(last).returned # None

----------------------------------------------------------------------------
(* A handle that was found invalid *)

\* C32: when the handle found in the context fails client.token_valid(), it
\* is taken out of the context before the first build; what the call returns
\* is a pair made by a build of this call, which the context then holds; if
\* the call raises, the context holds no handle for the bank.
C32_InvalidHandleDropped ==
    (last # None /\ Val(last).invalid) =>
        LET o == Val(last)
        IN  /\ o.pre # None /\ ~o.held
            /\ Count(o, "context.pop") = 1
            /\ Count(o, "build") >= 1
            /\ \A i \in At(o, "context.pop"), j \in At(o, "build") : i < j
            /\ o.build1 # "skipped"
            /\ IF o.exc # NoExc
               THEN /\ o.returned = None
                    /\ context[CacheBank(o.force_local)] = None
               ELSE /\ o.returned \in {o.gated, o.rebuilt}
                    /\ o.returned # None
                    /\ context[CacheBank(o.force_local)] = o.returned

\* a held handle was found invalid and the build that followed raised: the
\* context is left without a handle
C32_Witness ==
    /\ last # None
    /\ Val(last).invalid
    /\ Val(last).pre # None
    /\ Val(last).exc # NoExc
    /\ Val(last).build1 # "skipped"
    /\ context[CacheBank(Val(last).force_local)] = None

----------------------------------------------------------------------------
(* An AppRole without secret ID *)

\* C33: with auth method approle and a falsy auth.secret_id, a call never
\* calls _fetch_secret_id, never reads or fills a secret-ID cache and never
\* asks for a secret ID; no call, in any run type, raises the SaltException
\* of _fetch_secret_id.
C33_NoSecretIdNoFetch ==
    last # None =>
        LET o == Val(last)
        IN  /\ o.exc # "SaltException"
            /\ (opts.method = "approle" /\ ~opts.secret_id) =>
                /\ Count(o, "fetch_secret_id") = 0
                /\ Count(o, "secret_id_cache.get") = 0
                /\ Count(o, "store_secret_id") = 0
                /\ \A i \in At(o, "query") : o.ev[i].arg # "generate_secret_id"
                /\ \A b \in Banks : secrets[b] = None
                /\ o.returned # None =>
                      Val(o.returned).client.auth.secret = NoSecret

\* a local AppRole without secret ID: the call built a client, which logged
\* in with the role ID alone, and returned it
C33_Witness ==
    /\ last # None
    /\ opts.method = "approle" /\ ~opts.secret_id
    /\ IsLocal(Val(last).force_local)
    /\ Count(Val(last), "build") >= 1
    /\ Count(Val(last), "login") = 1
    /\ Count(Val(last), "fetch_secret_id") = 0
    /\ Val(last).returned # None

----------------------------------------------------------------------------
(* Legacy keys after parse_config *)

\* the legacy keys, and where the value of each is expected
LegacyKeys ==
    {"auth:ttl", "auth:uses", "namespace", "url", "verify", "role_name",
     "auth:token_backend", "auth:allow_minion_override"}

NewPaths(k) ==
    CASE k = "auth:ttl" -> {"issue:token:params:explicit_max_ttl",
                            "issue_params:explicit_max_ttl"}
      [] k = "auth:uses" -> {"issue:token:params:num_uses",
                             "issue_params:num_uses"}
      [] k = "namespace" -> {"server:namespace"}
      [] k = "url" -> {"server:url"}
      [] k = "verify" -> {"server:verify"}
      [] k = "role_name" -> {"issue:token:role_name"}
      [] k = "auth:token_backend" -> {"cache:backend"}
      [] k = "auth:allow_minion_override" ->
             {"issue:allow_minion_override_params"}

\* opts["vault"] sets verify, at its root or under server
LocalVerifySet(local) ==
    local # None /\ DOMAIN Val(local) \cap {"verify", "server:verify"} # {}

\* C34 as stated: after parse_config no legacy key is left at its old place
\* and the value of each is found at every new place.
C34_LegacyMoved ==
    (pc # None /\ Val(pc).out.exc = NoExc) =>
        LET cfg == Val(Val(pc).out.cfg)
        IN  \A k \in LegacyKeys :
                /\ k \notin DOMAIN cfg
                /\ k \in DOMAIN Val(pc).config =>
                      \A t \in NewPaths(k) :
                          t \in DOMAIN cfg /\ cfg[t] = Val(pc).config[k]

\* C34, amended: after parse_config no legacy key is left at its old place
\* and the value of each is found at every new place, except that a
\* root-level verify gives way to a verify set in the local opts["vault"],
\* which is then the value of server.verify.
C34_LegacyMovedUnlessLocalVerify ==
    (pc # None /\ Val(pc).out.exc = NoExc) =>
        LET cfg == Val(Val(pc).out.cfg)
            local == Val(pc).local
        IN  /\ \A k \in LegacyKeys :
                  /\ k \notin DOMAIN cfg
                  /\ (/\ k \in DOMAIN Val(pc).config
                      /\ ~(k = "verify" /\ LocalVerifySet(local))) =>
                        \A t \in NewPaths(k) :
                            t \in DOMAIN cfg /\ cfg[t] = Val(pc).config[k]
            /\ LocalVerifySet(local) =>
                  cfg["server:verify"] =
                      IF "verify" \in DOMAIN Val(local)
                      THEN Val(local)["verify"]
                      ELSE Val(local)["server:verify"]

\* a configuration with the legacy keys auth.uses, role_name and
\* auth.token_backend, validated: each value is at its new place
C34_Witness ==
    /\ pc # None
    /\ Val(pc).out.exc = NoExc
    /\ {"auth:uses", "role_name", "auth:token_backend"}
          \subseteq DOMAIN Val(pc).config
    /\ Val(Val(pc).out.cfg)["issue:token:params:num_uses"] = "5"
    /\ Val(Val(pc).out.cfg)["issue_params:num_uses"] = "5"
    /\ Val(Val(pc).out.cfg)["issue:token:role_name"] = "remote role_name"
    /\ Val(Val(pc).out.cfg)["cache:backend"] = "remote auth:token_backend"
    /\ DOMAIN Val(Val(pc).out.cfg) \cap LegacyKeys = {}

====
